---- MODULE Spec2Model ----
(***************************************************************************)
(* Model of the recommendation core of the habit tracker backend:          *)
(*   app/services/failure_analysis.py       (FailureAnalyzer)              *)
(*   app/services/decision_engine.py        (DecisionEngine)               *)
(*   app/services/weekly_recommendations.py (WeeklyRecommendationGenerator)*)
(*   app/services/integration.py            (generate_recommendations_for_week) *)
(*                                                                         *)
(* Text is a sequence of one-character strings, so that lower(), strip()   *)
(* and the substring test of the extractor are computed, not assumed.      *)
(* Dates are day numbers; day 1 is a Monday.                               *)
(***************************************************************************)
EXTENDS Integers, Sequences, FiniteSets, TLC

VARIABLES
    today,                   \* datetime.now().date()
    habits,                  \* table habits: id -> row
    habit_logs,              \* table habit_logs, in the order the store returns rows
    week_summaries,          \* table week_summaries (set of rows)
    weekly_recommendations,  \* table weekly_recommendations: committed rows
    next_id,                 \* next primary key of weekly_recommendations
    sessions,                \* one database session per running weekly generation
    calls,                   \* number of weekly generations started so far
    response,                \* what the last finished operation gave its caller
    notes,                   \* argument of _extract_patterns_from_notes
    extraction               \* its result

vars == << today, habits, habit_logs, week_summaries, weekly_recommendations,
           next_id, sessions, calls, response, notes, extraction >>

----------------------------------------------------------------------------
(* Bounds of the model *)

MaxNotes == 3     \* notes in one call of the extractor
MaxLogs == 2      \* rows of habit_logs the decision engine is run on
MaxCalls == 2     \* weekly generations in one behaviour
MaxMarked == 1    \* stored recommendations marked as acted upon at one time

----------------------------------------------------------------------------
(* Text *)

UpperCase == << "A","B","C","D","E","F","G","H","I","J","K","L","M",
                "N","O","P","Q","R","S","T","U","V","W","X","Y","Z" >>
LowerCase == << "a","b","c","d","e","f","g","h","i","j","k","l","m",
                "n","o","p","q","r","s","t","u","v","w","x","y","z" >>

Whitespace == { " ", "\t", "\n", "\r" }

\* str.lower() on one character
LowerChar(ch) ==
    IF \E i \in 1..26 : UpperCase[i] = ch
    THEN LowerCase[CHOOSE i \in 1..26 : UpperCase[i] = ch]
    ELSE ch

\* str.lower()
Lower(s) == [i \in 1..Len(s) |-> LowerChar(s[i])]

\* str.strip(): the text without its leading and trailing whitespace
Strip(s) ==
    LET keep == { i \in 1..Len(s) : s[i] \notin Whitespace }
    IN  IF keep = {} THEN << >>
        ELSE LET first == CHOOSE i \in keep : \A j \in keep : i <= j
                 last  == CHOOSE i \in keep : \A j \in keep : j <= i
             IN  SubSeq(s, first, last)

\* keyword in note_lower
Contains(s, keyword) ==
    \E i \in 0..(Len(s) - Len(keyword)) : SubSeq(s, i + 1, i + Len(keyword)) = keyword

----------------------------------------------------------------------------
(* FailureAnalyzer._extract_patterns_from_notes *)

keyword_mapping ==
    << [name |-> "time",
        keywords |-> << <<"b","u","s","y">>,
                        <<"r","u","s","h">>,
                        <<"t","i","m","e">>,
                        <<"s","c","h","e","d","u","l","e">>,
                        <<"c","o","n","f","l","i","c","t">>,
                        <<"l","a","t","e">>,
                        <<"e","a","r","l","y">> >>],
       [name |-> "tired",
        keywords |-> << <<"t","i","r","e","d">>,
                        <<"f","a","t","i","g","u","e">>,
                        <<"e","x","h","a","u","s","t","e","d">>,
                        <<"s","l","e","e","p">>,
                        <<"e","n","e","r","g","y">> >>],
       [name |-> "motivation",
        keywords |-> << <<"m","o","t","i","v","a","t","i","o","n">>,
                        <<"u","n","m","o","t","i","v","a","t","e","d">>,
                        <<"l","a","z","y">>,
                        <<"n","o"," ","r","e","a","s","o","n">> >>],
       [name |-> "forgot",
        keywords |-> << <<"f","o","r","g","o","t">>,
                        <<"f","o","r","g","e","t">>,
                        <<"m","i","s","s","e","d">>,
                        <<"d","i","d","n","'","t"," ","r","e","m","e","m","b","e","r">> >>],
       [name |-> "sick",
        keywords |-> << <<"s","i","c","k">>,
                        <<"i","l","l">>,
                        <<"h","e","a","l","t","h">>,
                        <<"d","o","c","t","o","r">>,
                        <<"p","a","i","n">>,
                        <<"i","n","j","u","r","y">> >>],
       [name |-> "travel",
        keywords |-> << <<"t","r","a","v","e","l">>,
                        <<"t","r","i","p">>,
                        <<"a","w","a","y">>,
                        <<"v","a","c","a","t","i","o","n">>,
                        <<"c","o","m","m","u","t","e">> >>],
       [name |-> "weather",
        keywords |-> << <<"w","e","a","t","h","e","r">>,
                        <<"r","a","i","n">>,
                        <<"c","o","l","d">>,
                        <<"h","o","t">>,
                        <<"s","t","o","r","m">> >>],
       [name |-> "other_priority",
        keywords |-> << <<"p","r","i","o","r","i","t","y">>,
                        <<"w","o","r","k">>,
                        <<"f","a","m","i","l","y">>,
                        <<"u","r","g","e","n","t">>,
                        <<"e","m","e","r","g","e","n","c","y">> >>] >>

\* any(keyword in note_lower for keyword in keywords)
AnyKeyword(note_lower, keywords) ==
    \E k \in 1..Len(keywords) : Contains(note_lower, keywords[k])

\* The inner loop over keyword_mapping.items(), from table position i on: the
\* name of the first entry with a matching keyword (the loop breaks there), or
\* "" when the loop ends with matched = False.
RECURSIVE MatchFrom(_, _)
MatchFrom(note_lower, i) ==
    IF i > Len(keyword_mapping) THEN ""
    ELSE IF AnyKeyword(note_lower, keyword_mapping[i].keywords)
         THEN keyword_mapping[i].name
         ELSE MatchFrom(note_lower, i + 1)

\* patterns[name] += 1 on a Counter; a dict keeps its keys in insertion order,
\* so the Counter is a sequence of [pattern, count] in order of first insertion.
Increment(patterns, name) ==
    IF \E i \in 1..Len(patterns) : patterns[i].pattern = name
    THEN [i \in 1..Len(patterns) |->
            IF patterns[i].pattern = name
            THEN [pattern |-> name, count |-> patterns[i].count + 1]
            ELSE patterns[i]]
    ELSE Append(patterns, [pattern |-> name, count |-> 1])

\* ExtractOne without note.lower(): the keywords are compared with the note as
\* it was written
ExtractOneCaseSensitive(patterns, note) ==
    IF note = << >> THEN patterns
    ELSE LET matched == MatchFrom(note, 1)
         IN  IF matched # "" THEN Increment(patterns, matched)
             ELSE IF Strip(note) # << >>
                  THEN Increment(patterns, "other")
                  ELSE patterns

\* One iteration of "for note in notes"
ExtractOne(patterns, note) ==
    IF note = << >> THEN patterns                          \* if not note: continue
    ELSE LET matched == MatchFrom(Lower(note), 1)
         IN  IF matched # "" THEN Increment(patterns, matched)
             ELSE IF Strip(note) # << >>                   \* not matched and note.strip()
                  THEN Increment(patterns, "other")
                  ELSE patterns

RECURSIVE ExtractFrom(_, _, _)
ExtractFrom(patterns, ns, i) ==
    IF i > Len(ns) THEN patterns
    ELSE ExtractFrom(ExtractOne(patterns, ns[i]), ns, i + 1)

_extract_patterns_from_notes(ns) == ExtractFrom(<< >>, ns, 1)

\* dict lookup with a default of 0
CountOf(patterns, name) ==
    IF \E i \in 1..Len(patterns) : patterns[i].pattern = name
    THEN patterns[CHOOSE i \in 1..Len(patterns) : patterns[i].pattern = name].count
    ELSE 0

----------------------------------------------------------------------------
(* Rows and queries *)

\* A habit_logs row is [habit_id, user_id, date, completed, notes]; notes is a
\* text, and << >> stands for NULL as well as for the empty text: every reader
\* of the column tests it with "if log.notes".
\* A week_summaries row is [user_id, week_start_date, average_completion_percentage].
\* A weekly_recommendations row is [id, user_id, habit_id, week_start_date,
\* recommendation_type, suggestion, details, is_acted_upon, acted_upon_date].

HabitIds == DOMAIN habits

\* db.query(Habit).filter(Habit.user_id == user_id, Habit.is_active == True).all(),
\* in primary key order
RECURSIVE IdsFrom(_, _)
IdsFrom(ids, i) ==
    IF ids = {} THEN << >>
    ELSE IF i \in ids THEN << i >> \o IdsFrom(ids \ {i}, i + 1)
         ELSE IdsFrom(ids, i + 1)

HabitsOfUser(user_id) ==
    IdsFrom({ h \in HabitIds : habits[h].user_id = user_id }, 0)

\* db.query(Habit).filter(Habit.user_id == user_id, Habit.is_active == True).all()
ActiveHabits(user_id) ==
    IdsFrom({ h \in HabitIds : habits[h].user_id = user_id /\ habits[h].is_active }, 0)

\* LogsSince without the condition on the date
LogsOfHabit(habit_id, user_id, cutoff_date) ==
    SelectSeq(habit_logs, LAMBDA log :
        log.habit_id = habit_id /\ log.user_id = user_id)

\* db.query(HabitLog).filter(habit_id, user_id, HabitLog.date >= cutoff_date).all()
LogsSince(habit_id, user_id, cutoff_date) ==
    SelectSeq(habit_logs, LAMBDA log :
        log.habit_id = habit_id /\ log.user_id = user_id /\ log.date >= cutoff_date)

\* round(num / den * 100, 2), as a number of hundredths of a percent. A tie of
\* the rounding needs a denominator that is a multiple of 32.
Percent2(num, den) == (20000 * num + den) \div (2 * den)

\* date.strftime("%A"); day 1 is a Monday
WeekdayNames == << "Monday", "Tuesday", "Wednesday", "Thursday", "Friday",
                   "Saturday", "Sunday" >>
Weekday(date) == WeekdayNames[((date - 1) % 7) + 1]

\* sorted(seq, key=count, reverse=True): stable, equal counts keep their order
RECURSIVE InsertByCount(_, _)
InsertByCount(sorted, x) ==
    IF sorted = << >> THEN << x >>
    ELSE IF Head(sorted).count >= x.count
         THEN << Head(sorted) >> \o InsertByCount(Tail(sorted), x)
         ELSE << x >> \o sorted

RECURSIVE SortByCountDesc(_)
SortByCountDesc(seq) ==
    IF seq = << >> THEN << >>
    ELSE InsertByCount(SortByCountDesc(SubSeq(seq, 1, Len(seq) - 1)), seq[Len(seq)])

\* sorted(logs, key=lambda x: x.date): stable, ascending
RECURSIVE InsertByDate(_, _)
InsertByDate(sorted, x) ==
    IF sorted = << >> THEN << x >>
    ELSE IF Head(sorted).date <= x.date
         THEN << Head(sorted) >> \o InsertByDate(Tail(sorted), x)
         ELSE << x >> \o sorted

RECURSIVE SortByDate(_)
SortByDate(seq) ==
    IF seq = << >> THEN << >>
    ELSE InsertByDate(SortByDate(SubSeq(seq, 1, Len(seq) - 1)), seq[Len(seq)])

\* seq[:n]
Take(seq, n) == SubSeq(seq, 1, IF Len(seq) < n THEN Len(seq) ELSE n)

\* Counter(keys): [pattern, count] in order of first occurrence
RECURSIVE CounterFrom(_, _, _)
CounterFrom(counter, keys, i) ==
    IF i > Len(keys) THEN counter
    ELSE CounterFrom(Increment(counter, keys[i]), keys, i + 1)

----------------------------------------------------------------------------
(* FailureAnalyzer *)

\* for log in reversed(sorted_logs): count while log.completed == 0
RECURSIVE TrailingFailures(_)
TrailingFailures(sorted_logs) ==
    IF sorted_logs = << >> THEN 0
    ELSE IF sorted_logs[Len(sorted_logs)].completed = 0
         THEN 1 + TrailingFailures(SubSeq(sorted_logs, 1, Len(sorted_logs) - 1))
         ELSE 0

\* The failures counted from the end of logs as the store returned them
CountInStoredOrder(logs) ==
    IF logs = << >> THEN 0 ELSE TrailingFailures(logs)

_count_consecutive_failures(logs) ==
    IF logs = << >> THEN 0 ELSE TrailingFailures(SortByDate(logs))

\* The dictionary get_failure_patterns_for_habit returns. patterns_type tells
\* what the value under "patterns" is: the literal [] of the early return is a
\* list, the extractor's result a dict. keys are the keys of the dictionary.
get_failure_patterns_for_habit(habit_id, user_id, days) ==
    LET cutoff_date == today - days
        logs == LogsSince(habit_id, user_id, cutoff_date)
        failed == SelectSeq(logs, LAMBDA log : log.completed = 0)
        noted == SelectSeq(logs, LAMBDA log : log.notes # << >>)
        failure_day_counts ==
            CounterFrom(<< >>, [i \in 1..Len(failed) |-> Weekday(failed[i].date)], 1)
    IN  IF logs = << >>
        THEN [ habit_id |-> habit_id,
               total_days_tracked |-> 0,
               total_failures |-> 0,
               failure_rate |-> 0,
               patterns |-> << >>,
               patterns_type |-> "list",
               common_failure_days |-> << >>,
               consecutive_failures |-> 0,
               keys |-> { "habit_id", "total_days_tracked", "total_failures",
                          "failure_rate", "patterns", "common_failure_days",
                          "consecutive_failures" } ]
        ELSE [ habit_id |-> habit_id,
               total_days_tracked |-> Len(logs),
               total_failures |-> Len(failed),
               failure_rate |-> Percent2(Len(failed), Len(logs)),
               patterns |-> _extract_patterns_from_notes(
                                [i \in 1..Len(noted) |-> noted[i].notes]),
               patterns_type |-> "dict",
               common_failure_days |-> Take(SortByCountDesc(failure_day_counts), 3),
               consecutive_failures |-> _count_consecutive_failures(logs),
               keys |-> { "habit_id", "total_days_tracked", "total_failures",
                          "failure_rate", "patterns", "common_failure_days",
                          "consecutive_failures", "last_failure_date" } ]

\* What a call gives its caller: raised is "" when it returned value, and the
\* name of the exception when it raised.
Returned(value) == [raised |-> "", value |-> value]
Raised(exception) == [raised |-> exception, value |-> << >>]

\* identify_repeated_failures, given the analysis of the habit.
\* patterns.get("patterns", {}).items(): a list has no items()
RepeatedIn(patterns) ==
    LET items == SelectSeq(patterns.patterns, LAMBDA p : p.count >= 2)
    IN  IF patterns.patterns_type # "dict" THEN Raised("AttributeError")
        ELSE Returned(SortByCountDesc(
               [ i \in 1..Len(items) |->
                   [ pattern |-> items[i].pattern,
                     count |-> items[i].count,           \* key "occurrences"
                     percentage |-> IF patterns.total_failures > 0
                                    THEN Percent2(items[i].count, patterns.total_failures)
                                    ELSE 0 ] ]))

identify_repeated_failures(habit_id, user_id, days) ==
    RepeatedIn(get_failure_patterns_for_habit(habit_id, user_id, days))

\* get_failure_patterns_for_user: habit_id -> analysis, for the active habits
get_failure_patterns_for_user(user_id, days) ==
    LET active == ActiveHabits(user_id)
    IN  [ i \in 1..Len(active) |->
            get_failure_patterns_for_habit(active[i], user_id, days) ]

\* sorted(critical_habits, key=failure_rate, reverse=True)
RECURSIVE InsertByFailureRate(_, _)
InsertByFailureRate(sorted, x) ==
    IF sorted = << >> THEN << x >>
    ELSE IF Head(sorted).failure_rate >= x.failure_rate
         THEN << Head(sorted) >> \o InsertByFailureRate(Tail(sorted), x)
         ELSE << x >> \o sorted

RECURSIVE SortByFailureRateDesc(_)
SortByFailureRateDesc(seq) ==
    IF seq = << >> THEN << >>
    ELSE InsertByFailureRate(SortByFailureRateDesc(SubSeq(seq, 1, Len(seq) - 1)),
                             seq[Len(seq)])

\* CriticalAmong with the comparison turned round
CriticalAmongBelow(patterns, failure_rate_threshold) ==
    LET critical == SelectSeq(patterns, LAMBDA analysis :
                        analysis.failure_rate <= failure_rate_threshold)
    IN  [ i \in 1..Len(critical) |->
            [ habit_id |-> critical[i].habit_id,
              habit_name |-> habits[critical[i].habit_id].name,
              failure_rate |-> critical[i].failure_rate,
              total_failures |-> critical[i].total_failures,
              total_days_tracked |-> critical[i].total_days_tracked,
              consecutive_failures |-> critical[i].consecutive_failures ] ]

\* The loop of get_habits_with_critical_failures over patterns.items()
CriticalAmong(patterns, failure_rate_threshold) ==
    LET critical == SelectSeq(patterns, LAMBDA analysis :
                        analysis.failure_rate >= failure_rate_threshold)
    IN  [ i \in 1..Len(critical) |->
            [ habit_id |-> critical[i].habit_id,
              habit_name |-> habits[critical[i].habit_id].name,
              failure_rate |-> critical[i].failure_rate,
              total_failures |-> critical[i].total_failures,
              total_days_tracked |-> critical[i].total_days_tracked,
              consecutive_failures |-> critical[i].consecutive_failures ] ]

\* failure_rate_threshold is in hundredths of a percent, like failure_rate
get_habits_with_critical_failures(user_id, failure_rate_threshold) ==
    SortByFailureRateDesc(
        CriticalAmong(get_failure_patterns_for_user(user_id, 14), failure_rate_threshold))

\* The failed, noted entries of all the user's habits, then the extractor
get_top_failure_reasons_across_habits(user_id, days) ==
    LET cutoff_date == today - days
        failed_logs == SelectSeq(habit_logs, LAMBDA log :
                           /\ log.user_id = user_id
                           /\ log.completed = 0
                           /\ log.date >= cutoff_date
                           /\ log.notes # << >>)
        kept == SelectSeq(failed_logs, LAMBDA log : Strip(log.notes) # << >>)
    IN  _extract_patterns_from_notes([i \in 1..Len(kept) |-> kept[i].notes])

----------------------------------------------------------------------------
(* DecisionEngine *)

\* _get_current_completion_rate: hundredths of a percent over the last 7 days
_get_current_completion_rate(habit_id, user_id) ==
    LET logs == LogsSince(habit_id, user_id, today - 7)
    IN  IF logs = << >> THEN 0
        ELSE Percent2(Len(SelectSeq(logs, LAMBDA log : log.completed = 1)), Len(logs))

\* FailurePattern(percentage=...) is validated with ge=0, le=100
FailurePatternValid(p) == p.percentage >= 0 /\ p.percentage <= 10000

\* _get_failure_patterns, given the analysis of the habit:
\* analysis.get("patterns", {}).items() needs a dict
FailurePatternsIn(analysis) ==
    LET items == SelectSeq(analysis.patterns, LAMBDA p : p.count > 0)
        patterns ==
            [ i \in 1..Len(items) |->
                [ pattern |-> items[i].pattern,
                  count |-> items[i].count,            \* field "frequency"
                  percentage |-> IF analysis.total_failures > 0
                                 THEN Percent2(items[i].count, analysis.total_failures)
                                 ELSE 0 ] ]
    IN  IF analysis.patterns_type # "dict" THEN Raised("AttributeError")
        ELSE IF \E i \in 1..Len(patterns) : ~FailurePatternValid(patterns[i])
             THEN Raised("ValidationError")
             ELSE Returned(SortByCountDesc(patterns))

_get_failure_patterns(habit_id, user_id) ==
    FailurePatternsIn(get_failure_patterns_for_habit(habit_id, user_id, 14))

\* query(WeekSummary).filter(user_id, week_start_date >= since)
\*     .order_by(week_start_date.desc()); one row per (user, week)
RECURSIVE NewestFirst(_)
NewestFirst(rows) ==
    IF rows = {} THEN << >>
    ELSE LET newest == CHOOSE r \in rows :
                           \A q \in rows : q.week_start_date <= r.week_start_date
         IN  << newest >> \o NewestFirst(rows \ {newest})

\* The rows of a user that begin after `since`
WeekSummariesAfter(user_id, since) ==
    NewestFirst({ r \in week_summaries :
                    r.user_id = user_id /\ r.week_start_date > since })

WeekSummariesSince(user_id, since) ==
    NewestFirst({ r \in week_summaries :
                    r.user_id = user_id /\ r.week_start_date >= since })

RECURSIVE SumCompletion(_)
SumCompletion(rows) ==
    IF rows = << >> THEN 0
    ELSE Head(rows).average_completion_percentage + SumCompletion(Tail(rows))

\* The fields of a HabitRecommendation and of its three subclasses; a field a
\* subclass does not have keeps the value it has here.
BaseRecommendation(habit_id) ==
    [ habit_id |-> habit_id,
      habit_name |-> habits[habit_id].name,
      recommendation_type |-> "",
      title |-> "",
      priority |-> "medium",
      current_completion_rate |-> 0,
      trend |-> "",
      failure_patterns |-> << >>,
      bad_weeks_count |-> 0,
      suggested_reduction |-> << >>,
      failure_count |-> 0,
      failure_type |-> "",
      stability_score |-> [sum |-> 0, weeks |-> 1],
      suggested_stretch |-> << >> ]

Max(a, b) == IF a >= b THEN a ELSE b

\* The ReduceScopeRecommendation of rule 1, given the failure patterns
ReduceScope(habit_id, user_id, bad_week_count, failure_patterns) ==
    LET target == habits[habit_id].target_frequency
    IN  IF failure_patterns.raised # "" THEN failure_patterns
        ELSE Returned(<< [ BaseRecommendation(habit_id) EXCEPT
               !.recommendation_type = "reduce_scope",
               !.title = "Consider Reducing Habit Scope",
               !.priority = "high",
               !.current_completion_rate = _get_current_completion_rate(habit_id, user_id),
               !.trend = "down",
               !.failure_patterns = failure_patterns.value,
               !.bad_weeks_count = bad_week_count,
               !.suggested_reduction = << target, Max(1, target - 1) >> ] >>)

\* Rule 1 on the week summaries stored under the habit's id
TwoBadWeeksOfHabit(habit_id, user_id) ==
    LET week_summaries_2 == Take(WeekSummariesSince(habit_id, today - 14), 2)
    IN  IF Len(week_summaries_2) = 2
           /\ \A i \in 1..2 : week_summaries_2[i].average_completion_percentage < 50
        THEN ReduceScope(habit_id, user_id, 2, _get_failure_patterns(habit_id, user_id))
        ELSE Returned(<< >>)

\* Rule 1. Returned(<< >>) is "return None", Returned(<< rec >>) a recommendation.
_check_two_bad_weeks(habit_id, user_id) ==
    LET two_weeks_ago == today - 14
        week_summaries_2 == Take(WeekSummariesSince(user_id, two_weeks_ago), 2)
        bad_week_count == Len(SelectSeq(week_summaries_2,
                              LAMBDA summary : summary.average_completion_percentage < 50))
    IN  IF Len(week_summaries_2) < 2 THEN Returned(<< >>)
        ELSE IF bad_week_count >= 2
             THEN ReduceScope(habit_id, user_id, bad_week_count,
                              _get_failure_patterns(habit_id, user_id))
             ELSE Returned(<< >>)

\* The RedesignHabitRecommendation of rule 2, given the failure patterns
RedesignHabit(habit_id, user_id, top_failure, failure_patterns) ==
    IF failure_patterns.raised # "" THEN failure_patterns
    ELSE Returned(<< [ BaseRecommendation(habit_id) EXCEPT
           !.recommendation_type = "redesign_habit",
           !.title = "Redesign Habit for Better Success",
           !.priority = "high",
           !.current_completion_rate = _get_current_completion_rate(habit_id, user_id),
           !.trend = "down",
           !.failure_patterns = failure_patterns.value,
           !.failure_count = top_failure.count,
           !.failure_type = top_failure.pattern ] >>)

\* Rule 2, given the repeated failures
RepeatedFailuresRule(habit_id, user_id, repeated_failures) ==
    IF repeated_failures.raised # "" THEN repeated_failures
    ELSE IF repeated_failures.value # << >> /\ repeated_failures.value[1].count >= 3
         THEN RedesignHabit(habit_id, user_id, repeated_failures.value[1],
                            _get_failure_patterns(habit_id, user_id))
         ELSE Returned(<< >>)

\* Rule 2
_check_repeated_failures(habit_id, user_id) ==
    RepeatedFailuresRule(habit_id, user_id,
                         identify_repeated_failures(habit_id, user_id, 14))

\* Rule 3
_check_stretch_opportunity(habit_id, user_id) ==
    LET four_weeks_ago == today - 28
        rows == WeekSummariesSince(user_id, four_weeks_ago)
        is_stable == \A i \in 1..Len(rows) : rows[i].average_completion_percentage >= 70
        oldest_completion == rows[Len(rows)].average_completion_percentage
        newest_completion == rows[1].average_completion_percentage
        trend == newest_completion - oldest_completion
        target == habits[habit_id].target_frequency
    IN  IF Len(rows) < 2 THEN Returned(<< >>)
        ELSE IF ~is_stable THEN Returned(<< >>)
        ELSE IF trend < 10
             THEN Returned(<< [ BaseRecommendation(habit_id) EXCEPT
                     !.recommendation_type = "add_stretch",
                     !.title = "You're Ready for a Stretch Goal!",
                     !.priority = "medium",
                     !.current_completion_rate =
                         _get_current_completion_rate(habit_id, user_id),
                     !.trend = "stable",
                     !.stability_score = [sum |-> SumCompletion(rows), weeks |-> Len(rows)],
                     !.suggested_stretch = << target, target + 1 >> ] >>)
             ELSE Returned(<< >>)

\* The recommendations of the three rules of a habit; the first exception ends
\* the call
RulesInOrder(bad_weeks_rec, repeated_failure_rec, stretch_rec) ==
    IF bad_weeks_rec.raised # "" THEN bad_weeks_rec
    ELSE IF repeated_failure_rec.raised # "" THEN repeated_failure_rec
    ELSE IF stretch_rec.raised # "" THEN stretch_rec
    ELSE Returned(bad_weeks_rec.value \o repeated_failure_rec.value \o stretch_rec.value)

\* _generate_habit_recommendations: rules 1 to 3 in order
_generate_habit_recommendations(habit_id, user_id) ==
    RulesInOrder(_check_two_bad_weeks(habit_id, user_id),
                 _check_repeated_failures(habit_id, user_id),
                 _check_stretch_opportunity(habit_id, user_id))

\* Rule 4
_check_ready_for_new_habit(user_id) ==
    LET three_weeks_ago == today - 21
        rows == Take(WeekSummariesSince(user_id, three_weeks_ago), 3)
    IN  IF Len(rows) < 3 THEN FALSE
        ELSE \A i \in 1..Len(rows) : rows[i].average_completion_percentage >= 85

\* _calculate_average_completion, in hundredths of a percent. The rates are
\* already rounded to hundredths; round(total / len, 2) rounds their mean again
\* (a decimal tie is resolved upwards here).
RECURSIVE SumRates(_, _)
SumRates(habit_ids, user_id) ==
    IF habit_ids = << >> THEN 0
    ELSE _get_current_completion_rate(Head(habit_ids), user_id)
         + SumRates(Tail(habit_ids), user_id)

_calculate_average_completion(user_id, habit_ids) ==
    IF habit_ids = << >> THEN 0
    ELSE (2 * SumRates(habit_ids, user_id) + Len(habit_ids)) \div (2 * Len(habit_ids))

\* max(top_failures.items(), key=lambda x: x[1]): the first item of maximal count
TopReason(top_failures) ==
    top_failures[CHOOSE i \in 1..Len(top_failures) :
        /\ \A j \in 1..Len(top_failures) : top_failures[j].count <= top_failures[i].count
        /\ \A j \in 1..(i - 1) : top_failures[j].count < top_failures[i].count]

\* _generate_system_recommendations: each message is [message, count, reason],
\* the text's fixed part and the values formatted into it
SystemMessage(message, count, reason) ==
    [message |-> message, count |-> count, reason |-> reason]

SystemMessages(ready, avg_completion, critical_habits, top_failures) ==
    (IF ready
     THEN << SystemMessage("ready to add a new habit", 0, "") >> ELSE << >>)
    \o
    (IF avg_completion < 5000
     THEN << SystemMessage("overall completion is below 50%", 0, "") >>
     ELSE IF avg_completion < 7000
          THEN << SystemMessage("making progress", 0, "") >>
          ELSE IF avg_completion >= 8500
               THEN << SystemMessage("consistently at 85%+", 0, "") >>
               ELSE << >>)
    \o
    (IF critical_habits # << >>
     THEN << SystemMessage("habit(s) have high failure rates", Len(critical_habits), "") >>
     ELSE << >>)
    \o
    (IF top_failures # << >>
     THEN << SystemMessage("most common failure reason", 0, TopReason(top_failures).pattern) >>
     ELSE << >>)

_generate_system_recommendations(user_id, habit_ids) ==
    SystemMessages(_check_ready_for_new_habit(user_id),
                   _calculate_average_completion(user_id, habit_ids),
                   get_habits_with_critical_failures(user_id, 6000),
                   get_top_failure_reasons_across_habits(user_id, 14))

\* priority_order of _prioritize_actions
priority_order(priority) ==
    CASE priority = "critical" -> 0
      [] priority = "high"     -> 1
      [] priority = "medium"   -> 2
      [] priority = "low"      -> 3
      [] OTHER                 -> 999

\* x placed before the entries of its own priority
RECURSIVE InsertBeforeEqual(_, _)
InsertBeforeEqual(sorted, x) ==
    IF sorted = << >> THEN << x >>
    ELSE IF priority_order(Head(sorted).priority) < priority_order(x.priority)
         THEN << Head(sorted) >> \o InsertBeforeEqual(Tail(sorted), x)
         ELSE << x >> \o sorted

\* sorted(recommendations, key=priority_order): stable, ascending
RECURSIVE InsertByPriority(_, _)
InsertByPriority(sorted, x) ==
    IF sorted = << >> THEN << x >>
    ELSE IF priority_order(Head(sorted).priority) <= priority_order(x.priority)
         THEN << Head(sorted) >> \o InsertByPriority(Tail(sorted), x)
         ELSE << x >> \o sorted

RECURSIVE SortByPriority(_)
SortByPriority(seq) ==
    IF seq = << >> THEN << >>
    ELSE InsertByPriority(SortByPriority(SubSeq(seq, 1, Len(seq) - 1)), seq[Len(seq)])

\* _prioritize_actions: "{i}. {rec.title} for '{rec.habit_name}'" for the top 5
_prioritize_actions(recommendations) ==
    LET sorted_recs == Take(SortByPriority(recommendations), 5)
    IN  [ i \in 1..Len(sorted_recs) |->
            [ rank |-> i,
              title |-> sorted_recs[i].title,
              habit_name |-> sorted_recs[i].habit_name ] ]

\* "for habit in habits: recs = ...; habit_recommendations.extend(recs)": the
\* first exception ends the loop and the call
RECURSIVE HabitRecommendationsFrom(_, _, _, _)
ExtendedWith(habit_recommendations, habit_ids, i, user_id, recs) ==
    IF recs.raised # "" THEN recs
    ELSE HabitRecommendationsFrom(habit_recommendations \o recs.value,
                                  habit_ids, i + 1, user_id)

HabitRecommendationsFrom(habit_recommendations, habit_ids, i, user_id) ==
    IF i > Len(habit_ids) THEN Returned(habit_recommendations)
    ELSE ExtendedWith(habit_recommendations, habit_ids, i, user_id,
                      _generate_habit_recommendations(habit_ids[i], user_id))

\* The RecommendationResponse of a user without active habits
OnboardingResponse(user_id) ==
    [ user_id |-> user_id,
      habit_recommendations |-> << >>,
      system_recommendations |-> << SystemMessage("Create your first habit", 0, "") >>,
      total_habits_tracked |-> 0,
      average_completion_rate |-> 0,
      habits_needing_attention |-> 0,
      next_steps |-> << [rank |-> 0, title |-> "Add a habit to begin tracking",
                         habit_name |-> ""] >> ]

\* The RecommendationResponse of a user with active habits
ResponseFor(user_id, habit_ids, habit_recommendations) ==
    IF habit_recommendations.raised # "" THEN habit_recommendations
    ELSE Returned(
           [ user_id |-> user_id,
             habit_recommendations |-> habit_recommendations.value,
             system_recommendations |-> _generate_system_recommendations(user_id, habit_ids),
             total_habits_tracked |-> Len(habit_ids),
             average_completion_rate |-> _calculate_average_completion(user_id, habit_ids),
             habits_needing_attention |-> Len(habit_recommendations.value),
             next_steps |-> _prioritize_actions(habit_recommendations.value) ])

ForHabits(user_id, habit_ids) ==
    IF habit_ids = << >> THEN Returned(OnboardingResponse(user_id))
    ELSE ResponseFor(user_id, habit_ids,
                     HabitRecommendationsFrom(<< >>, habit_ids, 1, user_id))

\* DecisionEngine.generate_recommendations
generate_recommendations(user_id) == ForHabits(user_id, ActiveHabits(user_id))

\* The RecommendationResponse of GET /habit/{habit_id}, given what the rules
\* returned: "except Exception as e: raise HTTPException(500, ...)"
HabitResponse(habit_id, user_id, recommendations) ==
    IF recommendations.raised # "" THEN Raised("HTTPException 500")
    ELSE Returned(
           [ user_id |-> user_id,
             habit_recommendations |-> recommendations.value,
             system_recommendations |-> << >>,
             total_habits_tracked |-> 1,
             average_completion_rate |-> _get_current_completion_rate(habit_id, user_id),
             habits_needing_attention |-> Len(recommendations.value),
             next_steps |-> [ i \in 1..Len(recommendations.value) |->
                                [ rank |-> 0,
                                  title |-> recommendations.value[i].title,
                                  habit_name |-> "" ] ] ])

\* get_habit_recommendations of api/recommendations.py: the habit is looked up
\* by id and user_id
get_habit_recommendations(habit_id, user_id) ==
    IF ~(habit_id \in HabitIds /\ habits[habit_id].user_id = user_id)
    THEN Raised("HTTPException 404")
    ELSE HabitResponse(habit_id, user_id,
                       _generate_habit_recommendations(habit_id, user_id))

\* get_recommendations of api/recommendations.py, given what the engine
\* returned: "except Exception as e: raise HTTPException(500, ...)"
RecommendationsOrError(recommendations) ==
    IF recommendations.raised # "" THEN Raised("HTTPException 500")
    ELSE recommendations

\* GET /api/v1/recommendations?user_id=...
get_recommendations(user_id) ==
    RecommendationsOrError(generate_recommendations(user_id))

----------------------------------------------------------------------------
(* WeeklyRecommendationGenerator: what one generation computes *)

\* The weeks a generation is asked for, and datetime.strptime(week_start_date,
\* "%Y-%m-%d").date() as a day number: 2024-01-01 is a Monday and day 1.
Weeks == { "2024-01-01", "2024-01-08" }

strptime(week_start_date) ==
    CASE week_start_date = "2024-01-01" -> 1
      [] week_start_date = "2024-01-08" -> 8

\* The completion of the week with 100.0 for a week without entries
FullWithoutEntries(habit_id, user_id, week_start_date) ==
    LET logs == SelectSeq(habit_logs, LAMBDA log :
                    /\ log.habit_id = habit_id
                    /\ log.user_id = user_id
                    /\ log.date >= strptime(week_start_date)
                    /\ log.date <= strptime(week_start_date) + 6)
    IN  IF logs = << >> THEN [ completed |-> 1, logs |-> 1 ]
        ELSE [ completed |-> Len(SelectSeq(logs, LAMBDA log : log.completed = 1)),
               logs |-> Len(logs) ]

\* _get_habit_week_completion: (completed / len(logs)) * 100, kept as the
\* fraction completed / logs; 0.0 without logs is [completed 0, logs 0].
_get_habit_week_completion(habit_id, user_id, week_start_date) ==
    LET start_date == strptime(week_start_date)
        end_date == start_date + 6
        logs == SelectSeq(habit_logs, LAMBDA log :
                    /\ log.habit_id = habit_id
                    /\ log.user_id = user_id
                    /\ log.date >= start_date
                    /\ log.date <= end_date)
    IN  [ completed |-> Len(SelectSeq(logs, LAMBDA log : log.completed = 1)),
          logs |-> Len(logs) ]

\* A comparison that holds for every completion
AnyCompletion(week_completion, percent) == week_completion.logs >= 0

\* week_completion < percent, week_completion >= percent
Below(week_completion, percent) ==
    IF week_completion.logs = 0 THEN 0 < percent
    ELSE 100 * week_completion.completed < percent * week_completion.logs

AtLeast(week_completion, percent) == ~Below(week_completion, percent)

\* f"{week_completion:.0f}". A week holds at most 7 entries of a habit, and a
\* tie of this rounding needs a number of entries that is a multiple of 8.
Format0(week_completion) ==
    IF week_completion.logs = 0 THEN 0
    ELSE (200 * week_completion.completed + week_completion.logs)
             \div (2 * week_completion.logs)

\* f"{100 - week_completion:.0f}"
FormatMissed0(week_completion) ==
    IF week_completion.logs = 0 THEN 100
    ELSE (200 * (week_completion.logs - week_completion.completed) + week_completion.logs)
             \div (2 * week_completion.logs)

\* WeeklyRecommendation(user_id=..., habit_id=..., ...): a row not yet stored.
\* suggestion and details are the text's fixed part and the values formatted
\* into it; is_acted_upon has the column default 0, acted_upon_date is NULL (0).
NewRecommendation(user_id, habit_id, week_start_date, recommendation_type, suggestion, argument, percent, count) ==
    [ user_id |-> user_id,
      habit_id |-> habit_id,
      week_start_date |-> week_start_date,
      recommendation_type |-> recommendation_type,
      suggestion |-> [ text |-> suggestion,
                       habit_name |-> habits[habit_id].name,
                       argument |-> argument ],
      details |-> [ habit_name |-> habits[habit_id].name,
                    argument |-> argument,
                    percent |-> percent,
                    count |-> count ],
      is_acted_upon |-> 0,
      acted_upon_date |-> 0 ]

\* Rules 1 to 5 of _generate_habit_weekly_recommendations in order, given what
\* the three queries returned
WeeklyRules(habit_id, user_id, week_start_date, week_completion, repeated_failures, failure_patterns) ==
    LET rule1 ==
            IF Below(week_completion, 30)
            THEN << NewRecommendation(user_id, habit_id, week_start_date, "reduce_scope",
                        "Consider reducing the scope of", "",
                        Format0(week_completion), 0) >>
            ELSE << >>
        rule2 ==
            IF repeated_failures.value # << >> /\ repeated_failures.value[1].count >= 2
            THEN << NewRecommendation(user_id, habit_id, week_start_date, "redesign_habit",
                        "Redesign to address", repeated_failures.value[1].pattern,
                        0, repeated_failures.value[1].count) >>
            ELSE << >>
        rule3 ==
            IF AtLeast(week_completion, 85)
            THEN << NewRecommendation(user_id, habit_id, week_start_date, "add_stretch",
                        "Add a stretch goal to", "",
                        Format0(week_completion), 0) >>
            ELSE << >>
        rule4 ==
            IF AtLeast(week_completion, 70) /\ Below(week_completion, 85)
            THEN << NewRecommendation(user_id, habit_id, week_start_date,
                        "consistency_improvement", "Build consistency with", "",
                        Format0(week_completion), FormatMissed0(week_completion)) >>
            ELSE << >>
        rule5 ==
            IF failure_patterns.common_failure_days # << >>
            THEN << NewRecommendation(user_id, habit_id, week_start_date,
                        "schedule_adjustment", "Adjust schedule on",
                        failure_patterns.common_failure_days[1].pattern,
                        0, failure_patterns.common_failure_days[1].count) >>
            ELSE << >>
    IN  IF repeated_failures.raised # "" THEN repeated_failures
        ELSE Returned(rule1 \o rule2 \o rule3 \o rule4 \o rule5)

\* _generate_habit_weekly_recommendations
_generate_habit_weekly_recommendations(habit_id, user_id, week_start_date) ==
    WeeklyRules(habit_id, user_id, week_start_date,
                _get_habit_week_completion(habit_id, user_id, week_start_date),
                identify_repeated_failures(habit_id, user_id, 7),
                get_failure_patterns_for_habit(habit_id, user_id, 7))

\* "for habit in habits: ...; recommendations.extend(habit_recs)"
RECURSIVE WeeklyRecommendationsFrom(_, _, _, _, _)
WeeklyExtendedWith(recommendations, habit_ids, i, user_id, week_start_date, habit_recs) ==
    IF habit_recs.raised # "" THEN habit_recs
    ELSE WeeklyRecommendationsFrom(recommendations \o habit_recs.value,
                                   habit_ids, i + 1, user_id, week_start_date)

WeeklyRecommendationsFrom(recommendations, habit_ids, i, user_id, week_start_date) ==
    IF i > Len(habit_ids) THEN Returned(recommendations)
    ELSE WeeklyExtendedWith(recommendations, habit_ids, i, user_id, week_start_date,
             _generate_habit_weekly_recommendations(habit_ids[i], user_id, week_start_date))

\* generate_weekly_recommendations up to the call of _save_recommendations
ComputeWeekly(user_id, week_start_date) ==
    WeeklyRecommendationsFrom(<< >>, ActiveHabits(user_id), 1, user_id, week_start_date)

----------------------------------------------------------------------------
(* WeeklyRecommendationGenerator: sessions and the stored rows *)

\* The sessions come from SessionLocal (autocommit=False, autoflush=False) on a
\* PostgreSQL database: a session's statements run in one READ COMMITTED
\* transaction that ends with commit() or, when a statement fails, rolled back.
\* weekly_recommendations holds the committed rows. A session is
\*   pc "idle"     not in a call; outcome tells how its last call ended, and
\*                 the other fields still tell what that call did,
\*   pc "save"     in _save_recommendations, before the DELETE,
\*   pc "deleting" DELETE issued: targets are the ids its snapshot selected,
\*   pc "commit"   DELETE done: deleted are the ids it removed and holds locked,
\*                 replaced the rows of these ids as the DELETE found them,
\*                 the db.add(rec) are pending until commit() flushes them.
Users == { 1, 2 }
Sessions == { 1, 2 }

IdleSession ==
    [ pc |-> "idle", user_id |-> 0, week_start_date |-> "", entry |-> "",
      recommendations |-> << >>, targets |-> {}, deleted |-> {}, replaced |-> {},
      outcome |-> "" ]

\* response: the operation that finished last, its arguments, the exception the
\* operation's work raised (generation_raised), the exception its caller saw
\* (raised), "" for none, and the value returned
NoResponse ==
    [ op |-> "", user_id |-> 0, habit_id |-> 0, days |-> 0, week_start_date |-> "",
      generation_raised |-> "", raised |-> "", value |-> << >> ]

\* The two entry points of a weekly generation
EntryPoints == { "generate_weekly_recommendations", "generate_recommendations_for_week" }

\* generate_recommendations_for_week: "except Exception as e: print(...)"; what
\* its caller sees when the generation raised `exception` ("" for none)
generate_recommendations_for_week(exception) == ""

\* RaisedToCaller with every entry point catching the exception
RaisedToCallerCaught(entry, exception) == ""

\* What the caller of an entry point sees when the generation raised `exception`
RaisedToCaller(entry, exception) ==
    IF entry = "generate_recommendations_for_week"
    THEN generate_recommendations_for_week(exception)
    ELSE exception

\* What the entry point returns on success: the list, or None (<< >>)
ReturnedToCaller(entry, recommendations) ==
    IF entry = "generate_recommendations_for_week" THEN << >> ELSE recommendations

\* DeleteTargets without the condition on week_start_date
DeleteTargetsOfUser(rows, user_id, week_start_date) ==
    { r \in rows : r.user_id = user_id }

\* DeleteTargets that spares the rows marked acted upon
DeleteTargetsPending(rows, user_id, week_start_date) ==
    { r \in rows : /\ r.user_id = user_id
                   /\ r.week_start_date = week_start_date
                   /\ r.is_acted_upon = 0 }

\* The rows "DELETE ... WHERE user_id = :user_id AND week_start_date = :week" selects
DeleteTargets(rows, user_id, week_start_date) ==
    { r \in rows : r.user_id = user_id /\ r.week_start_date = week_start_date }

\* The committed rows while a session's DELETE is done but not committed
CommittedAfterDelete(rows, deleted) == rows

\* CommittedAfterFailure with a DELETE that was committed on its own
CommittedAfterFailureDeleted(rows, deleted) == { r \in rows : r.id \notin deleted }

\* The committed rows after a failed statement or a failed commit(): the
\* transaction is rolled back
CommittedAfterFailure(rows, deleted) == rows

\* The rows a flush inserts for the pending objects, ids from the sequence
InsertedRows(recommendations, first_id) ==
    { [ id |-> first_id + i - 1,
        user_id |-> recommendations[i].user_id,
        habit_id |-> recommendations[i].habit_id,
        week_start_date |-> recommendations[i].week_start_date,
        recommendation_type |-> recommendations[i].recommendation_type,
        suggestion |-> recommendations[i].suggestion,
        details |-> recommendations[i].details,
        is_acted_upon |-> recommendations[i].is_acted_upon,
        acted_upon_date |-> recommendations[i].acted_upon_date ]
      : i \in 1..Len(recommendations) }

\* CommittedAfterCommit without the DELETE: the pending rows are added to what
\* is stored
CommittedAfterCommitAppending(rows, deleted, recommendations, first_id) ==
    rows \cup InsertedRows(recommendations, first_id)

\* The committed rows after commit(): the deleted rows gone, the pending added
CommittedAfterCommit(rows, deleted, recommendations, first_id) ==
    { r \in rows : r.id \notin deleted } \cup InsertedRows(recommendations, first_id)

Ids(rows) == { r.id : r \in rows }

\* The part of generate_weekly_recommendations before the save, given what the
\* rules computed: an exception of a rule ends the call, nothing is stored
GenerateComputed(s, user_id, week_start_date, entry, computed) ==
    LET started == [ IdleSession EXCEPT !.user_id = user_id,
                                        !.week_start_date = week_start_date,
                                        !.entry = entry ]
    IN  /\ sessions[s].pc = "idle"
        /\ calls < MaxCalls
        /\ calls' = calls + 1
        /\ IF computed.raised # ""
           THEN /\ sessions' = [sessions EXCEPT ![s] = [started EXCEPT !.outcome = "raised"]]
                /\ response' = [ NoResponse EXCEPT
                       !.op = entry, !.user_id = user_id,
                       !.week_start_date = week_start_date,
                       !.generation_raised = computed.raised,
                       !.raised = RaisedToCaller(entry, computed.raised) ]
           ELSE /\ sessions' = [sessions EXCEPT ![s] =
                       [started EXCEPT !.pc = "save", !.recommendations = computed.value]]
                /\ UNCHANGED response
        /\ UNCHANGED << today, habits, habit_logs, week_summaries,
                        weekly_recommendations, next_id, notes, extraction >>

\* generate_weekly_recommendations from its start to the call of
\* _save_recommendations; an exception of a rule ends the call here
Generate(s, user_id, week_start_date, entry) ==
    GenerateComputed(s, user_id, week_start_date, entry,
                     ComputeWeekly(user_id, week_start_date))

\* _save_recommendations: the DELETE is issued and takes its snapshot
IssueDelete(s) ==
    /\ sessions[s].pc = "save"
    /\ sessions' = [sessions EXCEPT ![s] = [@ EXCEPT
           !.pc = "deleting",
           !.targets = Ids(DeleteTargets(weekly_recommendations, sessions[s].user_id,
                                         sessions[s].week_start_date))]]
    /\ UNCHANGED << today, habits, habit_logs, week_summaries, weekly_recommendations,
                    next_id, calls, response, notes, extraction >>

\* The DELETE ends: it waits while another transaction holds one of its target
\* rows locked, and removes the targets that are still there
FinishDelete(s) ==
    /\ sessions[s].pc = "deleting"
    /\ \A t \in Sessions \ {s} :
           sessions[t].pc = "commit" => sessions[t].deleted \cap sessions[s].targets = {}
    /\ LET deleted == sessions[s].targets \cap Ids(weekly_recommendations)
       IN  /\ sessions' = [sessions EXCEPT ![s] = [@ EXCEPT
                  !.pc = "commit", !.deleted = deleted,
                  !.replaced = { r \in weekly_recommendations : r.id \in deleted }]]
           /\ weekly_recommendations' =
                  CommittedAfterDelete(weekly_recommendations, deleted)
    /\ UNCHANGED << today, habits, habit_logs, week_summaries,
                    next_id, calls, response, notes, extraction >>

\* commit(): the pending rows are flushed and the transaction commits
Commit(s) ==
    /\ sessions[s].pc = "commit"
    /\ weekly_recommendations' =
           CommittedAfterCommit(weekly_recommendations, sessions[s].deleted,
                                sessions[s].recommendations, next_id)
    /\ next_id' = next_id + Len(sessions[s].recommendations)
    /\ sessions' = [sessions EXCEPT ![s] = [@ EXCEPT !.pc = "idle", !.outcome = "committed"]]
    /\ response' = [ NoResponse EXCEPT
           !.op = sessions[s].entry, !.user_id = sessions[s].user_id,
           !.week_start_date = sessions[s].week_start_date,
           !.value = ReturnedToCaller(sessions[s].entry, sessions[s].recommendations) ]
    /\ UNCHANGED << today, habits, habit_logs, week_summaries, calls, notes, extraction >>

\* The DELETE, an INSERT of the flush or the COMMIT fails: the database raises,
\* the transaction is rolled back and the exception leaves _save_recommendations
FailSave(s) ==
    /\ sessions[s].pc \in { "save", "commit" }
    /\ weekly_recommendations' =
           CommittedAfterFailure(weekly_recommendations, sessions[s].deleted)
    /\ sessions' = [sessions EXCEPT ![s] = [@ EXCEPT !.pc = "idle", !.outcome = "rolled back"]]
    /\ response' = [ NoResponse EXCEPT
           !.op = sessions[s].entry, !.user_id = sessions[s].user_id,
           !.week_start_date = sessions[s].week_start_date,
           !.generation_raised = "SQLAlchemyError",
           !.raised = RaisedToCaller(sessions[s].entry, "SQLAlchemyError") ]
    /\ UNCHANGED << today, habits, habit_logs, week_summaries, next_id, calls,
                    notes, extraction >>

\* mark_recommendation_acted_upon, in a session of its own; the UPDATE waits
\* while the row is locked by a DELETE that is not committed
mark_recommendation_acted_upon(recommendation_id) ==
    LET found == { r \in weekly_recommendations : r.id = recommendation_id }
        marked == { [r EXCEPT !.is_acted_upon = 1, !.acted_upon_date = today] : r \in found }
    IN  /\ \A t \in Sessions :
               sessions[t].pc = "commit" => recommendation_id \notin sessions[t].deleted
        /\ weekly_recommendations' = (weekly_recommendations \ found) \cup marked
        /\ response' = [ NoResponse EXCEPT
               !.op = "mark_recommendation_acted_upon",
               !.value = IF marked = {} THEN << >> ELSE << CHOOSE r \in marked : TRUE >> ]
        /\ UNCHANGED << today, habits, habit_logs, week_summaries, next_id, sessions,
                        calls, notes, extraction >>

\* Every stored row of the user, marked or not
RowsOfUser(rows, user_id) == { r \in rows : r.user_id = user_id }

\* filter(user_id == :user_id, is_acted_upon == 0)
PendingRows(rows, user_id) ==
    { r \in rows : r.user_id = user_id /\ r.is_acted_upon = 0 }

\* order_by(created_at.desc()): created_at is the server's now() of the
\* inserting transaction (migration 002), so the rows of a later transaction
\* come first, and the rows one transaction inserted, which are rows of one
\* (user, week), share their created_at and come in any order. The value is
\* the set of the orders the query can return.
RECURSIVE ByCreatedAtDesc(_)
ByCreatedAtDesc(rows) ==
    IF rows = {} THEN { << >> }
    ELSE UNION { { << r >> \o rest : rest \in ByCreatedAtDesc(rows \ { r }) } :
                 r \in { x \in rows :
                           \A y \in rows :
                               \/ x.id >= y.id
                               \/ (x.user_id = y.user_id
                                     /\ x.week_start_date = y.week_start_date) } }

\* get_pending_recommendations: the lists the query can return
get_pending_recommendations(user_id, limit) ==
    { Take(order, limit) :
        order \in ByCreatedAtDesc(PendingRows(weekly_recommendations, user_id)) }

\* A client asks for the pending recommendations of a user, in a session of
\* its own
GetPendingRecommendations(user_id, limit) ==
    /\ \A s \in Sessions : sessions[s].pc = "idle"
    /\ calls < MaxCalls
    /\ calls' = calls + 1
    /\ \E result \in get_pending_recommendations(user_id, limit) :
           response' = [ NoResponse EXCEPT
               !.op = "get_pending_recommendations", !.user_id = user_id,
               !.value = result ]
    /\ UNCHANGED << today, habits, habit_logs, week_summaries, weekly_recommendations,
                    next_id, sessions, notes, extraction >>

----------------------------------------------------------------------------
(* The data the operations run on *)

\* habits: 1 and 2 belong to user 1, 3 to user 2
HabitTable(active) ==
    [ h \in { 1, 2, 3 } |->
        [ user_id |-> IF h = 3 THEN 2 ELSE 1,
          name |-> CASE h = 1 -> "Morning Run" [] h = 2 -> "Meditation" [] h = 3 -> "Reading",
          target_frequency |-> CASE h = 1 -> 5 [] h = 2 -> 1 [] h = 3 -> 3,
          is_active |-> active[h] ] ]

Log(habit_id, date, completed, text) ==
    [ habit_id |-> habit_id, user_id |-> IF habit_id = 3 THEN 2 ELSE 1,
      date |-> date, completed |-> completed, notes |-> text ]

TooBusy == << "t","o","o"," ","b","u","s","y" >>
LateMeeting == << "L","a","t","e"," ","m","e","e","t","i","n","g" >>
SoTired == << "s","o"," ","t","i","r","e","d" >>

\* The entries habit_logs of the weekly generator may hold, in the order the
\* store returns them: one entry per (habit, user, date), as the unique
\* constraint of the table demands. With today = 15, the dates 9 and 10 are in
\* the week of 2024-01-08 and in the last 7 days, the date 3 in the week of
\* 2024-01-01 only. Habit 2 has no entries.
LogPool ==
    << Log(1, 9, 0, TooBusy),
       Log(1, 10, 0, LateMeeting),
       Log(1, 3, 1, << >>),
       Log(3, 9, 0, SoTired) >>

\* The rows of pool whose positions are in keep, in the order of pool
RECURSIVE Pick(_, _, _)
Pick(pool, keep, i) ==
    IF i > Len(pool) THEN << >>
    ELSE (IF i \in keep THEN << pool[i] >> ELSE << >>) \o Pick(pool, keep, i + 1)

SummaryRow(user_id, week_start_date, percentage) ==
    [ user_id |-> user_id, week_start_date |-> week_start_date,
      average_completion_percentage |-> percentage ]

NoExtraction == [ done |-> FALSE, patterns |-> << >> ]

InitWeekly ==
    /\ today = 15
    /\ \E active2 \in BOOLEAN :
           habits = HabitTable([ h \in { 1, 2, 3 } |-> IF h = 2 THEN active2 ELSE TRUE ])
    /\ \E keep \in SUBSET (1..Len(LogPool)) : habit_logs = Pick(LogPool, keep, 1)
    /\ week_summaries = { SummaryRow(1, 1, 40), SummaryRow(1, 8, 45), SummaryRow(2, 8, 90) }
    /\ weekly_recommendations = {}
    /\ next_id = 1
    /\ sessions = [ s \in Sessions |-> IdleSession ]
    /\ calls = 0
    /\ response = NoResponse
    /\ notes = << >>
    /\ extraction = NoExtraction

\* Between two generations a client marks a recommendation: a stored one, or
\* an id that is not stored
Mark ==
    \E recommendation_id \in 1..next_id :
        /\ \A s \in Sessions : sessions[s].pc = "idle"
        /\ \/ Cardinality({ r \in weekly_recommendations : r.is_acted_upon = 1 }) < MaxMarked
           \/ recommendation_id \notin
                  Ids({ r \in weekly_recommendations : r.is_acted_upon = 0 })
        /\ mark_recommendation_acted_upon(recommendation_id)

\* A step of a weekly generation in session s
WeeklyStep(s) ==
    \/ \E user_id \in Users, week_start_date \in Weeks, entry \in EntryPoints :
           Generate(s, user_id, week_start_date, entry)
    \/ IssueDelete(s)
    \/ FinishDelete(s)
    \/ Commit(s)
    \/ FailSave(s)

\* One generation at a time: every call is made in session 1
Next ==
    \/ WeeklyStep(1)
    \/ Mark

Spec == InitWeekly /\ [][Next]_vars

\* The limits get_pending_recommendations is asked with: 1, and the default 10
Limits == { 1, 10 }

\* Generations, marks and queries of the pending recommendations in sequence
NextActedUpon ==
    \/ WeeklyStep(1)
    \/ Mark
    \/ \E user_id \in Users, limit \in Limits : GetPendingRecommendations(user_id, limit)

SpecActedUpon == InitWeekly /\ [][NextActedUpon]_vars

\* Generations in two sessions at once
NextConcurrent == \E s \in Sessions : WeeklyStep(s)

SpecConcurrent == InitWeekly /\ [][NextConcurrent]_vars

----------------------------------------------------------------------------
(* The decision engine and the failure analyzer on stored data *)

NoteOnDone == << "B","u","s","y"," ","d","a","y" >>

\* The entries habit_logs may hold when the engine runs, today = 15: date 0 is
\* older than 14 days, date 10 is within the last 7 days. An entry is done or
\* failed, with or without a note.
EngineLogs ==
    { Log(habit_id, date, entry[1], entry[2]) :
        habit_id \in { 1, 2 }, date \in { 0, 10 },
        entry \in { << 1, << >> >>, << 0, << >> >>, << 0, TooBusy >>, << 1, NoteOnDone >> } }

\* The tables habit_logs of at most MaxLogs rows, in every order, with one
\* entry per (habit, user, date)
LogTables(universe) ==
    { logs \in UNION { [1..n -> universe] : n \in 0..MaxLogs } :
        \A i, j \in 1..Len(logs) :
            (logs[i].habit_id = logs[j].habit_id /\ logs[i].date = logs[j].date) => i = j }

SummaryTables ==
    { {},
      { SummaryRow(1, 1, 40), SummaryRow(1, 8, 45) },
      { SummaryRow(1, 1, 74), SummaryRow(1, 8, 72) } }

InitEngine ==
    /\ today = 15
    /\ \E active1, active2 \in BOOLEAN :
           habits = HabitTable([ h \in { 1, 2, 3 } |->
                        CASE h = 1 -> active1 [] h = 2 -> active2 [] h = 3 -> FALSE ])
    /\ habit_logs \in LogTables(EngineLogs)
    /\ week_summaries \in SummaryTables
    /\ weekly_recommendations =
           InsertedRows(<< NewRecommendation(1, 1, "2024-01-08", "reduce_scope",
                               "Consider reducing the scope of", "", 0, 0) >>, 1)
    /\ next_id = 2
    /\ sessions = [ s \in Sessions |-> IdleSession ]
    /\ calls = 0
    /\ response = NoResponse
    /\ notes = << >>
    /\ extraction = NoExtraction

\* What a caller of the engine or of the analyzer receives
EngineResponse(op, user_id, habit_id, days, result) ==
    [ NoResponse EXCEPT
        !.op = op, !.user_id = user_id, !.habit_id = habit_id, !.days = days,
        !.generation_raised = result.raised, !.raised = result.raised,
        !.value = result.value ]

\* A single value as the list the response holds
One(result) ==
    IF result.raised # "" THEN result ELSE Returned(<< result.value >>)

\* GenerateRecommendations with a row stored for the response
GenerateRecommendationsStoring(user_id) ==
    /\ response = NoResponse
    /\ response' = EngineResponse("generate_recommendations", user_id, 0, 0,
                                  One(generate_recommendations(user_id)))
    /\ weekly_recommendations' = weekly_recommendations \cup
           InsertedRows(<< NewRecommendation(user_id, 1, "2024-01-08", "general",
                               "Review your habits", "", 0, 0) >>, next_id)
    /\ next_id' = next_id + 1
    /\ UNCHANGED << today, habits, habit_logs, week_summaries,
                    sessions, calls, notes, extraction >>

\* A caller runs DecisionEngine.generate_recommendations
GenerateRecommendations(user_id) ==
    /\ response = NoResponse
    /\ response' = EngineResponse("generate_recommendations", user_id, 0, 0,
                                  One(generate_recommendations(user_id)))
    /\ UNCHANGED << today, habits, habit_logs, week_summaries, weekly_recommendations,
                    next_id, sessions, calls, notes, extraction >>

\* A caller runs FailureAnalyzer.get_failure_patterns_for_habit
GetFailurePatternsForHabit(habit_id, user_id, days) ==
    /\ response = NoResponse
    /\ response' = EngineResponse("get_failure_patterns_for_habit", user_id, habit_id, days,
               Returned(<< get_failure_patterns_for_habit(habit_id, user_id, days) >>))
    /\ UNCHANGED << today, habits, habit_logs, week_summaries, weekly_recommendations,
                    next_id, sessions, calls, notes, extraction >>

\* A caller runs FailureAnalyzer.identify_repeated_failures
IdentifyRepeatedFailures(habit_id, user_id, days) ==
    /\ response = NoResponse
    /\ response' = EngineResponse("identify_repeated_failures", user_id, habit_id, days,
                                  identify_repeated_failures(habit_id, user_id, days))
    /\ UNCHANGED << today, habits, habit_logs, week_summaries, weekly_recommendations,
                    next_id, sessions, calls, notes, extraction >>

\* The windows the analyzer is asked for
Windows == { 7, 14, 21 }

\* One operation is run on the stored data: each is enabled while no response
\* was given
NextEngine ==
    \/ \E user_id \in Users : GenerateRecommendations(user_id)
    \/ \E habit_id \in HabitIds, days \in Windows :
           GetFailurePatternsForHabit(habit_id, habits[habit_id].user_id, days)
    \/ \E habit_id \in HabitIds, days \in Windows :
           IdentifyRepeatedFailures(habit_id, habits[habit_id].user_id, days)

SpecEngine == InitEngine /\ [][NextEngine]_vars

----------------------------------------------------------------------------
(* The extractor on notes *)

TiredAndBusy == << "S","o"," ","T","I","R","E","D"," ","a","n","d"," ","B","u","s","y" >>
Training == << "t","r","a","i","n","i","n","g" >>
NoReason == << "n","o"," ","r","e","a","s","o","n" >>
Blank == << " ", "\t" >>
Unmatched == << "x","y","z" >>

\* The notes the extractor is run on: several categories in one note, upper
\* case, a keyword inside a word, a keyword with a space, the empty text, a
\* text of whitespace, a text without keyword
SampleNotes ==
    { TooBusy, SoTired, TiredAndBusy, Training, NoReason, << >>, Blank, Unmatched }

InitExtractor ==
    /\ today = 15
    /\ habits = HabitTable([ h \in { 1, 2, 3 } |-> TRUE ])
    /\ habit_logs = << >>
    /\ week_summaries = {}
    /\ weekly_recommendations = {}
    /\ next_id = 1
    /\ sessions = [ s \in Sessions |-> IdleSession ]
    /\ calls = 0
    /\ response = NoResponse
    /\ notes \in UNION { [1..n -> SampleNotes] : n \in 0..MaxNotes }
    /\ extraction = NoExtraction

\* A caller runs FailureAnalyzer._extract_patterns_from_notes on notes
Extract ==
    /\ ~extraction.done
    /\ extraction' = [ done |-> TRUE, patterns |-> _extract_patterns_from_notes(notes) ]
    /\ UNCHANGED << today, habits, habit_logs, week_summaries, weekly_recommendations,
                    next_id, sessions, calls, response, notes >>

SpecExtractor == InitExtractor /\ [][Extract]_vars

----------------------------------------------------------------------------
(* The analyzer's and the engine's operations on the entries of two habits *)

\* The entries habit_logs may hold, today = 15, in the order the store returns
\* them: habit 1 has up to four failures with a note in the last 14 days (three
\* of the category time, one of tired), a completed entry with a note, and a
\* failure older than 14 days; habit 2 has a failure and a completed entry
\* without notes.
RulePool ==
    << Log(1, 5, 0, TooBusy),
       Log(1, 8, 0, LateMeeting),
       Log(1, 10, 0, TooBusy),
       Log(1, 12, 0, SoTired),
       Log(1, 13, 1, NoteOnDone),
       Log(1, 0, 0, TooBusy),
       Log(2, 10, 0, << >>),
       Log(2, 11, 1, << >>) >>

InitRules ==
    /\ today = 15
    /\ \E active1, active2 \in BOOLEAN :
           habits = HabitTable([ h \in { 1, 2, 3 } |->
                        CASE h = 1 -> active1 [] h = 2 -> active2 [] h = 3 -> TRUE ])
    /\ \E keep \in SUBSET (1..Len(RulePool)) : habit_logs = Pick(RulePool, keep, 1)
    /\ week_summaries \in { { SummaryRow(1, 1, 40), SummaryRow(1, 8, 45) },
                            { SummaryRow(1, 1, 74), SummaryRow(1, 8, 72) } }
    /\ weekly_recommendations = {}
    /\ next_id = 1
    /\ sessions = [ s \in Sessions |-> IdleSession ]
    /\ calls = 0
    /\ response = NoResponse
    /\ notes = << >>
    /\ extraction = NoExtraction

\* The thresholds get_habits_with_critical_failures is asked for, in hundredths
\* of a percent: the default 50.0, the 60.0 of the engine, and two rates the
\* entries can make
Thresholds == { 5000, 6000, 6667, 10000 }

\* A caller runs FailureAnalyzer.get_habits_with_critical_failures
GetHabitsWithCriticalFailures(user_id, failure_rate_threshold) ==
    /\ response = NoResponse
    /\ response' = EngineResponse("get_habits_with_critical_failures", user_id, 0, 14,
           Returned(<< [ failure_rate_threshold |-> failure_rate_threshold,
                         critical_habits |->
                             get_habits_with_critical_failures(user_id,
                                                               failure_rate_threshold) ] >>))
    /\ UNCHANGED << today, habits, habit_logs, week_summaries, weekly_recommendations,
                    next_id, sessions, calls, notes, extraction >>

\* The engine runs rule 2 on a habit
CheckRepeatedFailures(habit_id, user_id) ==
    /\ response = NoResponse
    /\ response' = EngineResponse("_check_repeated_failures", user_id, habit_id, 14,
                                  _check_repeated_failures(habit_id, user_id))
    /\ UNCHANGED << today, habits, habit_logs, week_summaries, weekly_recommendations,
                    next_id, sessions, calls, notes, extraction >>

\* A client calls GET /habit/{habit_id}?user_id=...
GetHabitRecommendations(habit_id, user_id) ==
    /\ response = NoResponse
    /\ response' = EngineResponse("get_habit_recommendations", user_id, habit_id, 0,
                                  One(get_habit_recommendations(habit_id, user_id)))
    /\ UNCHANGED << today, habits, habit_logs, week_summaries, weekly_recommendations,
                    next_id, sessions, calls, notes, extraction >>

\* A caller runs FailureAnalyzer.get_failure_patterns_for_user
GetFailurePatternsForUser(user_id, days) ==
    /\ response = NoResponse
    /\ response' = EngineResponse("get_failure_patterns_for_user", user_id, 0, days,
                                  Returned(get_failure_patterns_for_user(user_id, days)))
    /\ UNCHANGED << today, habits, habit_logs, week_summaries, weekly_recommendations,
                    next_id, sessions, calls, notes, extraction >>

\* The user ids and habit ids a client may ask for: those of the stored rows,
\* and one id without a row
RequestedUsers == Users \cup { 3 }
RequestedHabits == HabitIds \cup { 4 }

\* A client calls GET /api/v1/recommendations?user_id=...
GetRecommendations(user_id) ==
    /\ response = NoResponse
    /\ response' = EngineResponse("get_recommendations", user_id, 0, 0,
                                  One(get_recommendations(user_id)))
    /\ UNCHANGED << today, habits, habit_logs, week_summaries, weekly_recommendations,
                    next_id, sessions, calls, notes, extraction >>

\* The engine runs _get_failure_patterns on a habit
GetFailurePatterns(habit_id, user_id) ==
    /\ response = NoResponse
    /\ response' = EngineResponse("_get_failure_patterns", user_id, habit_id, 14,
                                  _get_failure_patterns(habit_id, user_id))
    /\ UNCHANGED << today, habits, habit_logs, week_summaries, weekly_recommendations,
                    next_id, sessions, calls, notes, extraction >>

NextRules ==
    \/ \E user_id \in Users, failure_rate_threshold \in Thresholds :
           GetHabitsWithCriticalFailures(user_id, failure_rate_threshold)
    \/ \E habit_id \in HabitIds : CheckRepeatedFailures(habit_id, habits[habit_id].user_id)
    \/ \E habit_id \in RequestedHabits, user_id \in RequestedUsers :
           GetHabitRecommendations(habit_id, user_id)
    \/ \E user_id \in RequestedUsers : GetRecommendations(user_id)
    \/ \E habit_id \in HabitIds : GetFailurePatterns(habit_id, habits[habit_id].user_id)
    \/ \E habit_id \in HabitIds :
           IdentifyRepeatedFailures(habit_id, habits[habit_id].user_id, 14)
    \/ \E user_id \in Users : GetFailurePatternsForUser(user_id, 14)
    \/ \E user_id \in Users : GenerateRecommendations(user_id)

SpecRules == InitRules /\ [][NextRules]_vars

----------------------------------------------------------------------------
(* The rules of the engine that read the week summaries *)

\* The weeks a summary may be stored for, today = 15: the current week, the
\* week before, the week that begins 14 days ago, the week that begins 28 days
\* ago, and a week older than every lookback
SummaryWeeks == { 15, 8, 1, -13, -20 }

\* average_completion_percentage of a stored row; 0 stands for "no row"
SummaryValues == { 0, 45, 50, 70, 75, 80 }

\* The entries of the summaries' data: a failure of habit 1 and a completion
\* of habit 2 in the last 7 days
SummaryPool == << Log(1, 10, 0, TooBusy), Log(2, 12, 1, << >>) >>

InitSummaries ==
    /\ today = 15
    /\ habits = HabitTable([ h \in { 1, 2, 3 } |-> TRUE ])
    /\ \E keep \in { {}, { 1, 2 } } : habit_logs = Pick(SummaryPool, keep, 1)
    /\ \E value \in [SummaryWeeks -> SummaryValues], other \in BOOLEAN :
           week_summaries =
               { SummaryRow(1, week, value[week]) :
                   week \in { w \in SummaryWeeks : value[w] # 0 } }
               \cup (IF other THEN { SummaryRow(2, 8, 40), SummaryRow(2, 1, 45) } ELSE {})
    /\ weekly_recommendations = {}
    /\ next_id = 1
    /\ sessions = [ s \in Sessions |-> IdleSession ]
    /\ calls = 0
    /\ response = NoResponse
    /\ notes = << >>
    /\ extraction = NoExtraction

\* The engine runs rule 1 on a habit
CheckTwoBadWeeks(habit_id, user_id) ==
    /\ response = NoResponse
    /\ response' = EngineResponse("_check_two_bad_weeks", user_id, habit_id, 14,
                                  _check_two_bad_weeks(habit_id, user_id))
    /\ UNCHANGED << today, habits, habit_logs, week_summaries, weekly_recommendations,
                    next_id, sessions, calls, notes, extraction >>

\* The engine runs rule 3 on a habit
CheckStretchOpportunity(habit_id, user_id) ==
    /\ response = NoResponse
    /\ response' = EngineResponse("_check_stretch_opportunity", user_id, habit_id, 28,
                                  _check_stretch_opportunity(habit_id, user_id))
    /\ UNCHANGED << today, habits, habit_logs, week_summaries, weekly_recommendations,
                    next_id, sessions, calls, notes, extraction >>

NextSummaries ==
    \/ \E habit_id \in HabitIds : CheckTwoBadWeeks(habit_id, habits[habit_id].user_id)
    \/ \E habit_id \in HabitIds : CheckStretchOpportunity(habit_id, habits[habit_id].user_id)
    \/ \E user_id \in Users : GenerateRecommendations(user_id)

SpecSummaries == InitSummaries /\ [][NextSummaries]_vars

----------------------------------------------------------------------------
(* The analyzer on entries in every stored order *)

\* The most rows habit_logs holds when the order of the rows is varied
MaxEntries == 4

\* The entries: habit 1 on the days 0, 11, 12 and 13, habit 2 on day 13, each
\* completed or failed, without notes; today = 15
OrderedLogs ==
    { Log(key[1], key[2], completed, << >>) :
        key \in { << 1, 0 >>, << 1, 11 >>, << 1, 12 >>, << 1, 13 >>, << 2, 13 >> },
        completed \in { 0, 1 } }

InitOrders ==
    /\ today = 15
    /\ habits = HabitTable([ h \in { 1, 2, 3 } |-> TRUE ])
    /\ habit_logs \in
           { logs \in UNION { [1..n -> OrderedLogs] : n \in 0..MaxEntries } :
               \A i, j \in 1..Len(logs) :
                   (logs[i].habit_id = logs[j].habit_id /\ logs[i].date = logs[j].date)
                       => i = j }
    /\ week_summaries = {}
    /\ weekly_recommendations = {}
    /\ next_id = 1
    /\ sessions = [ s \in Sessions |-> IdleSession ]
    /\ calls = 0
    /\ response = NoResponse
    /\ notes = << >>
    /\ extraction = NoExtraction

NextOrders ==
    \E habit_id \in { 1, 2 }, days \in Windows :
        GetFailurePatternsForHabit(habit_id, habits[habit_id].user_id, days)

SpecOrders == InitOrders /\ [][NextOrders]_vars

----------------------------------------------------------------------------
(* The weekly rules of one habit on the entries of a week *)

\* The days habit 1 may have an entry on, today = 15: the seven days of the
\* week of 2024-01-08, which are the last 7 days as well, and day 3 of the week
\* of 2024-01-01
EntryDays == << 3, 8, 9, 10, 11, 12, 13, 14 >>

\* What a day holds: no entry, a completed entry, a failed entry with a note
DayStates == { "none", "done", "failed" }

RECURSIVE EntriesOn(_, _)
EntriesOn(day_state, i) ==
    IF i > Len(EntryDays) THEN << >>
    ELSE (CASE day_state[i] = "none" -> << >>
            [] day_state[i] = "done" -> << Log(1, EntryDays[i], 1, << >>) >>
            [] day_state[i] = "failed" -> << Log(1, EntryDays[i], 0, TooBusy) >>)
         \o EntriesOn(day_state, i + 1)

InitWeekRules ==
    /\ today = 15
    /\ habits = HabitTable([ h \in { 1, 2, 3 } |-> TRUE ])
    /\ \E day_state \in [1..Len(EntryDays) -> DayStates] :
           habit_logs = EntriesOn(day_state, 1)
    /\ week_summaries = {}
    /\ weekly_recommendations = {}
    /\ next_id = 1
    /\ sessions = [ s \in Sessions |-> IdleSession ]
    /\ calls = 0
    /\ response = NoResponse
    /\ notes = << >>
    /\ extraction = NoExtraction

\* The generator runs _generate_habit_weekly_recommendations on a habit
GenerateHabitWeekly(habit_id, user_id, week_start_date) ==
    /\ response = NoResponse
    /\ response' = [ EngineResponse("_generate_habit_weekly_recommendations", user_id,
                         habit_id, 7,
                         _generate_habit_weekly_recommendations(habit_id, user_id,
                                                                week_start_date))
                       EXCEPT !.week_start_date = week_start_date ]
    /\ UNCHANGED << today, habits, habit_logs, week_summaries, weekly_recommendations,
                    next_id, sessions, calls, notes, extraction >>

NextWeekRules ==
    \E week_start_date \in Weeks : GenerateHabitWeekly(1, 1, week_start_date)

SpecWeekRules == InitWeekRules /\ [][NextWeekRules]_vars

----------------------------------------------------------------------------
(* _prioritize_actions on lists of recommendations *)

\* The longest list of recommendations _prioritize_actions is run on
MaxRecommendations == 6

Priorities == { "critical", "high", "medium", "low" }

RuleTitles ==
    << "Consider Reducing Habit Scope",
       "Redesign Habit for Better Success",
       "You're Ready for a Stretch Goal!" >>

\* The k-th recommendation of habit_recommendations: the habits in order, the
\* rules of each habit in order; its priority is the caller's
RecommendationAt(k, priority) ==
    [ BaseRecommendation(((k - 1) \div 3) + 1) EXCEPT
        !.title = RuleTitles[((k - 1) % 3) + 1],
        !.priority = priority ]

InitPrioritize ==
    /\ today = 15
    /\ habits = HabitTable([ h \in { 1, 2, 3 } |-> TRUE ])
    /\ habit_logs = << >>
    /\ week_summaries = {}
    /\ weekly_recommendations = {}
    /\ next_id = 1
    /\ sessions = [ s \in Sessions |-> IdleSession ]
    /\ calls = 0
    /\ response = NoResponse
    /\ notes = << >>
    /\ extraction = NoExtraction

\* The engine runs _prioritize_actions on a list of recommendations
PrioritizeActions(recommendations) ==
    /\ response = NoResponse
    /\ response' = EngineResponse("_prioritize_actions", 0, 0, 0,
           Returned(<< [ recommendations |-> recommendations,
                         next_steps |-> _prioritize_actions(recommendations) ] >>))
    /\ UNCHANGED << today, habits, habit_logs, week_summaries, weekly_recommendations,
                    next_id, sessions, calls, notes, extraction >>

NextPrioritize ==
    \E n \in 0..MaxRecommendations : \E priority \in [1..n -> Priorities] :
        PrioritizeActions([ k \in 1..n |-> RecommendationAt(k, priority[k]) ])

SpecPrioritize == InitPrioritize /\ [][NextPrioritize]_vars

----------------------------------------------------------------------------
(* Properties of the extractor *)

Categories == { keyword_mapping[i].name : i \in 1..Len(keyword_mapping) } \cup { "other" }

\* keyword is a substring of note when upper and lower case are not told apart
OccursIn(keyword, note) ==
    \E offset \in 0..(Len(note) - Len(keyword)) :
        \A j \in 1..Len(keyword) : LowerChar(note[offset + j]) = keyword[j]

IsBlank(note) == \A i \in 1..Len(note) : note[i] \in Whitespace

TableMatches(note, k) ==
    \E w \in 1..Len(keyword_mapping[k].keywords) :
        OccursIn(keyword_mapping[k].keywords[w], note)

\* The one category of a note: the first of the table with a keyword in the
\* note, "other" without one, and "" (none) for a blank note
CategoryOf(note) ==
    IF IsBlank(note) THEN ""
    ELSE IF \E k \in 1..Len(keyword_mapping) : TableMatches(note, k)
         THEN keyword_mapping[CHOOSE k \in 1..Len(keyword_mapping) :
                  /\ TableMatches(note, k)
                  /\ \A e \in 1..(k - 1) : ~TableMatches(note, e)].name
         ELSE "other"

RECURSIVE SumCounts(_)
SumCounts(patterns) ==
    IF patterns = << >> THEN 0 ELSE Head(patterns).count + SumCounts(Tail(patterns))

\* C10: each note that is not blank adds exactly 1 to exactly one category, the
\* first of the table (in table order) that has a keyword occurring in the
\* note whatever the case, or "other"; a blank note adds nothing. So the
\* counts sum to the number of notes that are not blank, and every permutation
\* of the notes gives the same counts.
C10_OneCategoryPerNote ==
    extraction.done =>
        /\ LET category == [i \in 1..Len(notes) |-> CategoryOf(notes[i])]
           IN  \A c \in Categories :
                   CountOf(extraction.patterns, c) =
                       Cardinality({ i \in 1..Len(notes) : category[i] = c })
        /\ \A i, j \in 1..Len(extraction.patterns) :
               /\ extraction.patterns[i].pattern \in Categories
               /\ extraction.patterns[i].count >= 1
               /\ extraction.patterns[i].pattern = extraction.patterns[j].pattern => i = j
        /\ SumCounts(extraction.patterns) =
               Cardinality({ i \in 1..Len(notes) : ~IsBlank(notes[i]) })
        /\ \A order \in Permutations(1..Len(notes)) :
               LET permuted == _extract_patterns_from_notes(
                                   [i \in 1..Len(notes) |-> notes[order[i]]])
               IN  \A c \in Categories :
                       CountOf(permuted, c) = CountOf(extraction.patterns, c)

\* Three notes were classified: one with keywords of two categories and upper
\* case, of which the earlier category of the table was counted, one blank
\* and one without keyword
C10_Witness ==
    /\ extraction.done
    /\ Len(notes) = 3
    /\ \E i, j, k \in 1..3 :
           notes[i] = TiredAndBusy /\ notes[j] = Blank /\ notes[k] = Unmatched
    /\ CountOf(extraction.patterns, "time") = 1
    /\ CountOf(extraction.patterns, "tired") = 0
    /\ CountOf(extraction.patterns, "other") = 1
    /\ SumCounts(extraction.patterns) = 2

----------------------------------------------------------------------------
(* Properties of the weekly generation *)

\* A stored row without its primary key
Content(r) ==
    [ user_id |-> r.user_id,
      habit_id |-> r.habit_id,
      week_start_date |-> r.week_start_date,
      recommendation_type |-> r.recommendation_type,
      suggestion |-> r.suggestion,
      details |-> r.details,
      is_acted_upon |-> r.is_acted_upon,
      acted_upon_date |-> r.acted_upon_date ]

StoredFor(user_id, week_start_date) ==
    { r \in weekly_recommendations :
        r.user_id = user_id /\ r.week_start_date = week_start_date }

\* The stored rows of a key are the recommendations of a list, one row each
StoredExactly(user_id, week_start_date, recommendations) ==
    /\ Cardinality(StoredFor(user_id, week_start_date)) = Len(recommendations)
    /\ { Content(r) : r \in StoredFor(user_id, week_start_date) }
           = { recommendations[i] : i \in 1..Len(recommendations) }

\* The last operation that finished is a generation of session s that committed
JustCommitted(s) ==
    /\ sessions[s].pc = "idle"
    /\ sessions[s].outcome = "committed"
    /\ response.op \in EntryPoints
    /\ response.generation_raised = ""
    /\ response.user_id = sessions[s].user_id
    /\ response.week_start_date = sessions[s].week_start_date

\* C1: when generate_weekly_recommendations(user, week) has completed, the
\* stored rows of (user, week) are exactly the rows this call computed, whatever
\* was stored before; they are what a call on the same data computes, so a
\* second call in a row leaves the same records and not the union.
C1_ReplaceAll ==
    JustCommitted(1) =>
        /\ StoredExactly(sessions[1].user_id, sessions[1].week_start_date,
                         sessions[1].recommendations)
        /\ StoredExactly(sessions[1].user_id, sessions[1].week_start_date,
                         ComputeWeekly(sessions[1].user_id,
                                       sessions[1].week_start_date).value)

\* A second generation of the same key has completed: it deleted as many rows
\* as it stored, and none of the deleted rows is left
C1_Witness ==
    /\ JustCommitted(1)
    /\ calls = 2
    /\ sessions[1].recommendations # << >>
    /\ Cardinality(sessions[1].deleted) = Len(sessions[1].recommendations)
    /\ sessions[1].deleted \cap Ids(weekly_recommendations) = {}
    /\ Cardinality(weekly_recommendations) = Len(sessions[1].recommendations)

\* C2: two generations of the same (user, week) that run at once are
\* serialized: when both have committed, the stored rows of the key are the
\* rows one of the two computed, not both sets and not a mixture.
C2_Serialized ==
    \A s, t \in Sessions :
        ( /\ s # t
          /\ sessions[s].pc = "idle" /\ sessions[s].outcome = "committed"
          /\ sessions[t].pc = "idle" /\ sessions[t].outcome = "committed"
          /\ sessions[s].user_id = sessions[t].user_id
          /\ sessions[s].week_start_date = sessions[t].week_start_date )
        => \/ StoredExactly(sessions[s].user_id, sessions[s].week_start_date,
                            sessions[s].recommendations)
           \/ StoredExactly(sessions[t].user_id, sessions[t].week_start_date,
                            sessions[t].recommendations)

\* Session s ends a call with an exception in this step
FailsNow(s) ==
    /\ sessions'[s].pc = "idle"
    /\ sessions'[s].outcome \in { "raised", "rolled back" }
    /\ sessions[s].pc # "idle" \/ calls' # calls

\* C3: a save that fails after its DELETE was issued leaves every row that was
\* stored before and none of the new rows; the stored rows never lack the old
\* rows of a key without holding the new ones: the DELETE of a session is not
\* in the stored rows before its commit.
C3_AtomicReplace ==
    [][ \A s \in Sessions :
          /\ (FailsNow(s) /\ sessions'[s].outcome = "rolled back")
                 => weekly_recommendations' = weekly_recommendations
          /\ (sessions'[s].pc # sessions[s].pc
                /\ sessions'[s].pc \in { "deleting", "commit" })
                 => weekly_recommendations' = weekly_recommendations ]_vars

\* A save failed after it had deleted rows and with rows to insert: the rows it
\* had deleted are stored
C3_Witness ==
    /\ sessions[1].pc = "idle"
    /\ sessions[1].outcome = "rolled back"
    /\ response.generation_raised = "SQLAlchemyError"
    /\ sessions[1].recommendations # << >>
    /\ sessions[1].deleted # {}
    /\ sessions[1].deleted \subseteq Ids(weekly_recommendations)

\* C4: no entry point of the weekly generation reports a normal
\* completion to its caller when the generation raised.
C4_Propagates ==
    (response.op \in EntryPoints /\ response.generation_raised # "")
        => response.raised # ""

\* C4, amended: a generation that raises stores nothing, and
\* generate_weekly_recommendations gives the exception to its caller, while
\* generate_recommendations_for_week catches it and returns normally.
C4_AbortsAndPropagatesFromGenerator ==
    [][ \A s \in Sessions : FailsNow(s) =>
          /\ weekly_recommendations' = weekly_recommendations
          /\ response'.op = sessions'[s].entry
          /\ response'.generation_raised # ""
          /\ response'.value = << >>
          /\ sessions'[s].entry = "generate_weekly_recommendations"
                 => response'.raised = response'.generation_raised
          /\ sessions'[s].entry = "generate_recommendations_for_week"
                 => response'.raised = "" ]_vars

\* A save started by generate_recommendations_for_week has failed and the
\* caller was not told
C4_Witness ==
    /\ response.op = "generate_recommendations_for_week"
    /\ response.generation_raised = "SQLAlchemyError"
    /\ response.raised = ""
    /\ sessions[1].pc = "idle"
    /\ sessions[1].outcome = "rolled back"
    /\ sessions[1].recommendations # << >>

\* C9: a weekly generation for (user, week) changes no row of habits,
\* habit_logs and week_summaries, and no stored recommendation of another user
\* or another week, its is_acted_upon included.
C9_OnlyRowsOfTheKey ==
    [][ \A s \in Sessions : sessions'[s] # sessions[s] =>
          /\ UNCHANGED << habits, habit_logs, week_summaries >>
          /\ { r \in weekly_recommendations' :
                 ~(r.user_id = sessions'[s].user_id
                   /\ r.week_start_date = sessions'[s].week_start_date) }
             = { r \in weekly_recommendations :
                 ~(r.user_id = sessions'[s].user_id
                   /\ r.week_start_date = sessions'[s].week_start_date) } ]_vars

\* A generation has replaced the rows of its key while a marked row of another
\* week is stored
C9_Witness ==
    /\ JustCommitted(1)
    /\ sessions[1].recommendations # << >>
    /\ \E r \in weekly_recommendations :
           /\ r.is_acted_upon = 1
           /\ r.user_id = sessions[1].user_id
           /\ r.week_start_date # sessions[1].week_start_date

----------------------------------------------------------------------------
(* Properties of the analyzer and of the decision engine *)

\* No entry of the habit is dated in the last `days` days
NoLogsInWindow(habit_id, user_id, days) ==
    \A i \in 1..Len(habit_logs) :
        ~( /\ habit_logs[i].habit_id = habit_id
           /\ habit_logs[i].user_id = user_id
           /\ habit_logs[i].date >= today - days )

\* C5: for a habit with no log entry in the analysis window,
\* get_failure_patterns_for_habit returns a zeroed summary (nothing tracked, no
\* failure, rate 0.0, no consecutive failures, no pattern, no failure day) and
\* does not raise.
C5_ZeroedSummary ==
    ( /\ response.op = "get_failure_patterns_for_habit"
      /\ NoLogsInWindow(response.habit_id, response.user_id, response.days) )
    => /\ response.raised = ""
       /\ Len(response.value) = 1
       /\ response.value[1].habit_id = response.habit_id
       /\ response.value[1].total_days_tracked = 0
       /\ response.value[1].total_failures = 0
       /\ response.value[1].failure_rate = 0
       /\ response.value[1].consecutive_failures = 0
       /\ response.value[1].patterns = << >>
       /\ response.value[1].common_failure_days = << >>

\* The habit asked for has a failed entry with a note, dated before the window
C5_Witness ==
    /\ response.op = "get_failure_patterns_for_habit"
    /\ NoLogsInWindow(response.habit_id, response.user_id, response.days)
    /\ \E i \in 1..Len(habit_logs) :
           /\ habit_logs[i].habit_id = response.habit_id
           /\ habit_logs[i].completed = 0
           /\ habit_logs[i].notes # << >>
    /\ response.value[1].total_days_tracked = 0

\* C6: for a user who has an active habit with no log entry in the last 14
\* days, identify_repeated_failures returns an empty list for that habit and
\* generate_recommendations returns a result without raising.
C6_RulesAbstain ==
    /\ ( /\ response.op = "identify_repeated_failures"
         /\ response.days = 14
         /\ habits[response.habit_id].is_active
         /\ NoLogsInWindow(response.habit_id, response.user_id, 14) )
       => (response.raised = "" /\ response.value = << >>)
    /\ ( /\ response.op = "generate_recommendations"
         /\ \E h \in HabitIds :
                /\ habits[h].user_id = response.user_id
                /\ habits[h].is_active
                /\ NoLogsInWindow(h, response.user_id, 14) )
       => (response.raised = "" /\ Len(response.value) = 1)

NoActiveHabit(user_id) ==
    \A h \in HabitIds : habits[h].user_id = user_id => ~habits[h].is_active

\* C7: for a user with no active habit, generate_recommendations does not raise
\* and returns no habit tracked, no habit recommendation, the onboarding message
\* as its one system message, an average completion of 0.0 and no habit needing
\* attention; no rule is evaluated for the habits that are not active.
C7_Onboarding ==
    (response.op = "generate_recommendations" /\ NoActiveHabit(response.user_id))
    => /\ response.raised = ""
       /\ Len(response.value) = 1
       /\ response.value[1].user_id = response.user_id
       /\ response.value[1].total_habits_tracked = 0
       /\ response.value[1].habit_recommendations = << >>
       /\ Len(response.value[1].system_recommendations) = 1
       /\ response.value[1].system_recommendations[1].message = "Create your first habit"
       /\ response.value[1].average_completion_rate = 0
       /\ response.value[1].habits_needing_attention = 0

\* The user has habits, none of them active, two bad weeks, and a habit with no
\* entry in the last 14 days
C7_Witness ==
    /\ response.op = "generate_recommendations"
    /\ response.user_id = 1
    /\ NoActiveHabit(1)
    /\ NoLogsInWindow(1, 1, 14)
    /\ \E w \in week_summaries :
           w.user_id = 1 /\ w.average_completion_percentage = 40
    /\ response.value[1].total_habits_tracked = 0

\* C8: generate_recommendations leaves the rows of habits, habit_logs,
\* week_summaries and weekly_recommendations as they were, when it returns and
\* when it raises.
C8_ReadOnly ==
    [][ (response' # response /\ response'.op = "generate_recommendations")
          => UNCHANGED << habits, habit_logs, week_summaries, weekly_recommendations >> ]_vars

\* A call has returned recommendations for a habit while rows are stored
C8_Witness ==
    /\ response.op = "generate_recommendations"
    /\ response.raised = ""
    /\ response.value[1].habit_recommendations # << >>
    /\ habit_logs # << >>
    /\ week_summaries # {}
    /\ weekly_recommendations # {}

\* C11: in get_failure_patterns_for_habit the category counts come from notes
\* of failed entries only: a note of a completed entry adds to no category, so
\* the counts of all categories sum to at most total_failures.
C11_PatternsOfFailuresOnly ==
    (response.op = "get_failure_patterns_for_habit" /\ Len(response.value) = 1)
    => SumCounts(response.value[1].patterns) <= response.value[1].total_failures

\* The list holds exactly the categories that the analysis of the habit's
\* window counts at least twice, each with its count, in an order of
\* non-increasing count
RepeatedExactly(repeated, analysis) ==
    /\ \A c \in Categories :
           CountOf(analysis.patterns, c) >= 2
               <=> \E i \in 1..Len(repeated) : repeated[i].pattern = c
    /\ \A i \in 1..Len(repeated) :
           /\ repeated[i].count = CountOf(analysis.patterns, repeated[i].pattern)
           /\ repeated[i].count >= 2
    /\ \A i, j \in 1..Len(repeated) :
           /\ repeated[i].pattern = repeated[j].pattern => i = j
           /\ i < j => repeated[i].count >= repeated[j].count

\* C12: identify_repeated_failures returns exactly the categories of the
\* habit's window that are counted at least twice, none with a count of 1 and
\* none left out, in an order of non-increasing count; its first element, when
\* there is one, has a maximal count.
C12_RepeatedCategories ==
    response.op = "identify_repeated_failures"
    => /\ response.raised = ""
       /\ RepeatedExactly(response.value,
              get_failure_patterns_for_habit(response.habit_id, response.user_id,
                                             response.days))

\* The failure rate of a habit over the last 14 days, in hundredths of a percent
FailureRate14(habit_id) ==
    LET window == { i \in 1..Len(habit_logs) :
                      /\ habit_logs[i].habit_id = habit_id
                      /\ habit_logs[i].user_id = habits[habit_id].user_id
                      /\ habit_logs[i].date >= today - 14 }
        failed == { i \in window : habit_logs[i].completed = 0 }
    IN  IF window = {} THEN 0 ELSE Percent2(Cardinality(failed), Cardinality(window))

CriticalIds(critical_habits) ==
    { critical_habits[i].habit_id : i \in 1..Len(critical_habits) }

----------------------------------------------------------------------------
(* Properties of the rules on week summaries *)

\* The rows of the user that begin in the last `days` days
InWindow(user_id, days) ==
    { r \in week_summaries : r.user_id = user_id /\ r.week_start_date >= today - days }

\* The two most recent rows of the 14-day window exist and are both below 50
TwoBadWeeks(user_id) ==
    \E a, b \in InWindow(user_id, 14) :
        /\ a.week_start_date > b.week_start_date
        /\ \A r \in InWindow(user_id, 14) \ { a } : r.week_start_date <= b.week_start_date
        /\ a.average_completion_percentage < 50
        /\ b.average_completion_percentage < 50

\* C14: _check_two_bad_weeks returns a recommendation if and only if the user
\* has at least 2 week summaries that begin in the last 14 days and the two
\* most recent of them are both strictly below 50; the recommendation has
\* priority high, trend down, bad_weeks_count 2 and a suggested reduction from
\* target_frequency to max(1, target_frequency - 1).
C14_TwoBadWeeksRule ==
    response.op = "_check_two_bad_weeks" =>
        /\ response.raised = ""
        /\ (response.value # << >>) <=> TwoBadWeeks(response.user_id)
        /\ response.value # << >> =>
               LET rec == response.value[1]
                   target == habits[response.habit_id].target_frequency
               IN  /\ Len(response.value) = 1
                   /\ rec.habit_id = response.habit_id
                   /\ rec.priority = "high"
                   /\ rec.trend = "down"
                   /\ rec.bad_weeks_count = 2
                   /\ rec.suggested_reduction =
                          << target, IF target - 1 >= 1 THEN target - 1 ELSE 1 >>

\* The failed entries of a habit in the last `days` days whose note is of
\* `category`
FailuresOf(habit_id, days, category) ==
    { i \in 1..Len(habit_logs) :
        /\ habit_logs[i].habit_id = habit_id
        /\ habit_logs[i].completed = 0
        /\ habit_logs[i].date >= today - days
        /\ CategoryOf(habit_logs[i].notes) = category }

\* C15: _check_repeated_failures returns a recommendation if and only if the
\* most frequent failure category of the habit in the 14-day window has at
\* least 3 occurrences; the recommendation names that category as
\* failure_type, its number of occurrences as failure_count, and has priority
\* high and trend down.
C15_RepeatedFailuresRule ==
    response.op = "_check_repeated_failures" =>
        /\ response.raised = ""
        /\ (response.value # << >>) <=>
               \E category \in Categories :
                   Cardinality(FailuresOf(response.habit_id, 14, category)) >= 3
        /\ response.value # << >> =>
               LET rec == response.value[1]
               IN  /\ Len(response.value) = 1
                   /\ rec.habit_id = response.habit_id
                   /\ rec.priority = "high"
                   /\ rec.trend = "down"
                   /\ rec.failure_type \in Categories
                   /\ rec.failure_count =
                          Cardinality(FailuresOf(response.habit_id, 14, rec.failure_type))
                   /\ \A category \in Categories :
                          Cardinality(FailuresOf(response.habit_id, 14, category))
                              <= rec.failure_count

RECURSIVE SumOfRows(_)
SumOfRows(rows) ==
    IF rows = {} THEN 0
    ELSE LET r == CHOOSE r \in rows : TRUE
         IN  r.average_completion_percentage + SumOfRows(rows \ { r })

\* At least 2 rows begin in the last 28 days, each is at 70 or more, and the
\* newest is less than 10 above the oldest
StableWithoutGain(user_id) ==
    LET window == InWindow(user_id, 28)
    IN  /\ Cardinality(window) >= 2
        /\ \A r \in window : r.average_completion_percentage >= 70
        /\ \A newest, oldest \in window :
               (\A r \in window : /\ r.week_start_date <= newest.week_start_date
                                   /\ r.week_start_date >= oldest.week_start_date)
               => newest.average_completion_percentage
                      - oldest.average_completion_percentage < 10

\* C16: _check_stretch_opportunity returns a recommendation if and only if the
\* user has at least 2 week summaries that begin in the last 28 days, each of
\* them is at 70 or more, and the newest is less than 10 above the oldest; the
\* recommendation's stability_score is the mean of those completions, its
\* priority is medium, its trend stable, and its suggested stretch goes from
\* target_frequency to target_frequency + 1.
C16_StretchRule ==
    response.op = "_check_stretch_opportunity" =>
        /\ response.raised = ""
        /\ (response.value # << >>) <=> StableWithoutGain(response.user_id)
        /\ response.value # << >> =>
               LET rec == response.value[1]
                   window == InWindow(response.user_id, 28)
                   target == habits[response.habit_id].target_frequency
               IN  /\ Len(response.value) = 1
                   /\ rec.habit_id = response.habit_id
                   /\ rec.priority = "medium"
                   /\ rec.trend = "stable"
                   /\ rec.stability_score.weeks > 0
                   /\ rec.stability_score.sum * Cardinality(window)
                          = SumOfRows(window) * rec.stability_score.weeks
                   /\ rec.suggested_stretch = << target, target + 1 >>

\* The stretch rule fired on a window of 3 or more rows whose oldest begins
\* exactly 28 days ago, while a row older than that is stored
C16_Witness ==
    /\ response.op = "_check_stretch_opportunity"
    /\ response.value # << >>
    /\ Cardinality(InWindow(response.user_id, 28)) >= 3
    /\ \E r \in InWindow(response.user_id, 28) : r.week_start_date = today - 28
    /\ \E r \in week_summaries :
           r.user_id = response.user_id /\ r.week_start_date < today - 28

----------------------------------------------------------------------------
(* Properties of _prioritize_actions *)

\* critical > high > medium > low
PriorityLevel(priority) ==
    CASE priority = "critical" -> 4
      [] priority = "high"     -> 3
      [] priority = "medium"   -> 2
      [] priority = "low"      -> 1

\* The positions of `recommendations` the entry `step` can refer to
RefersTo(step, recommendations) ==
    { k \in 1..Len(recommendations) :
        /\ recommendations[k].title = step.title
        /\ recommendations[k].habit_name = step.habit_name }

\* C17: _prioritize_actions returns min(5, number of recommendations) entries
\* numbered 1..n in order; the recommendations they refer to are in
\* non-increasing priority, those of equal priority keep their relative order,
\* and no omitted recommendation has a strictly higher priority than an
\* included one.
C17_NextStepsRanking ==
    response.op = "_prioritize_actions" =>
        LET recommendations == response.value[1].recommendations
            next_steps == response.value[1].next_steps
            n == Len(next_steps)
            level == [ k \in 1..Len(recommendations) |->
                         PriorityLevel(recommendations[k].priority) ]
        IN  /\ n = (IF Len(recommendations) < 5 THEN Len(recommendations) ELSE 5)
            /\ \A i \in 1..n :
                   /\ next_steps[i].rank = i
                   /\ Cardinality(RefersTo(next_steps[i], recommendations)) = 1
            /\ LET ref == [ i \in 1..n |->
                             CHOOSE k \in 1..Len(recommendations) :
                                 k \in RefersTo(next_steps[i], recommendations) ]
               IN  /\ \A i, j \in 1..n : i < j =>
                          /\ ref[i] # ref[j]
                          /\ level[ref[i]] >= level[ref[j]]
                          /\ level[ref[i]] = level[ref[j]] => ref[i] < ref[j]
                   /\ \A k \in 1..Len(recommendations), i \in 1..n :
                          (\A j \in 1..n : ref[j] # k) => level[k] <= level[ref[i]]

\* A list of more than 5 recommendations whose first one is omitted, whose
\* last one is ranked first, and of which two of equal priority are included
C17_Witness ==
    /\ response.op = "_prioritize_actions"
    /\ LET recommendations == response.value[1].recommendations
           next_steps == response.value[1].next_steps
       IN  /\ Len(recommendations) > 5
           /\ \A i \in 1..Len(next_steps) :
                  1 \notin RefersTo(next_steps[i], recommendations)
           /\ Len(recommendations) \in RefersTo(next_steps[1], recommendations)
           /\ recommendations[2].priority = recommendations[3].priority
           /\ \E i, j \in 1..Len(next_steps) :
                  /\ 2 \in RefersTo(next_steps[i], recommendations)
                  /\ 3 \in RefersTo(next_steps[j], recommendations)

----------------------------------------------------------------------------
(* Properties of the weekly rules *)

\* The entries of a habit dated in the 7 days that begin with week_start_date
EntriesOfWeek(habit_id, week_start_date) ==
    { i \in 1..Len(habit_logs) :
        /\ habit_logs[i].habit_id = habit_id
        /\ habit_logs[i].date >= strptime(week_start_date)
        /\ habit_logs[i].date <= strptime(week_start_date) + 6 }

\* The habit's completion c of the week is below percent; c is 0 without entries
CompletionBelow(habit_id, week_start_date, percent) ==
    LET entries == EntriesOfWeek(habit_id, week_start_date)
        done == { i \in entries : habit_logs[i].completed = 1 }
    IN  IF entries = {} THEN 0 < percent
        ELSE 100 * Cardinality(done) < percent * Cardinality(entries)

\* The generation of session s produced a record of the type for the habit
Produced(s, habit_id, recommendation_type) ==
    \E i \in 1..Len(sessions[s].recommendations) :
        /\ sessions[s].recommendations[i].habit_id = habit_id
        /\ sessions[s].recommendations[i].recommendation_type = recommendation_type

\* C18: for every active habit of the user, a weekly generation produces a
\* reduce-scope record if and only if the habit's completion c of the target
\* week is below 30, an add-stretch record if and only if c >= 85, and a
\* consistency-improvement record if and only if 70 <= c < 85.
C18_WeeklyThresholds ==
    \A s \in Sessions : sessions[s].entry # "" =>
        \A habit_id \in HabitIds :
            (habits[habit_id].user_id = sessions[s].user_id /\ habits[habit_id].is_active) =>
                LET week == sessions[s].week_start_date
                IN  /\ Produced(s, habit_id, "reduce_scope")
                           <=> CompletionBelow(habit_id, week, 30)
                    /\ Produced(s, habit_id, "add_stretch")
                           <=> ~CompletionBelow(habit_id, week, 85)
                    /\ Produced(s, habit_id, "consistency_improvement")
                           <=> (~CompletionBelow(habit_id, week, 70)
                                /\ CompletionBelow(habit_id, week, 85))

\* The failed entries of a habit dated in the target week whose note is of
\* the category
FailuresOfWeek(habit_id, week_start_date, category) ==
    { i \in EntriesOfWeek(habit_id, week_start_date) :
        /\ habit_logs[i].completed = 0
        /\ CategoryOf(habit_logs[i].notes) = category }

\* C19: the redesign check and the schedule-adjustment check of a weekly
\* generation consider only the entries dated within the 7 days that begin
\* with week_start_date: a schedule-adjustment record is produced only for a
\* habit with a failed entry in those days, a redesign record only for a habit
\* with 2 or more failed entries of one category in those days.
C19_KeyedToTargetWeek ==
    \A s \in Sessions : sessions[s].entry # "" =>
        \A habit_id \in HabitIds :
            LET week == sessions[s].week_start_date
            IN  /\ Produced(s, habit_id, "schedule_adjustment") =>
                       \E i \in EntriesOfWeek(habit_id, week) : habit_logs[i].completed = 0
                /\ Produced(s, habit_id, "redesign_habit") =>
                       \E category \in Categories :
                           Cardinality(FailuresOfWeek(habit_id, week, category)) >= 2

----------------------------------------------------------------------------
(* Properties of the habits' is_active *)

\* Every entry of the list is of an active habit
OfActiveHabits(entries) ==
    \A i \in 1..Len(entries) : habits[entries[i].habit_id].is_active

\* C20: an inactive habit is never analyzed: neither generate_recommendations
\* nor the single-habit endpoint returns a recommendation of an inactive
\* habit, and neither get_failure_patterns_for_user nor
\* get_habits_with_critical_failures returns the failure summary of one.
C20_InactiveNeverAnalyzed ==
    /\ (response.op \in { "generate_recommendations", "get_habit_recommendations" }
           /\ response.raised = "")
        => OfActiveHabits(response.value[1].habit_recommendations)
    /\ response.op = "get_failure_patterns_for_user" => OfActiveHabits(response.value)
    /\ response.op = "get_habits_with_critical_failures"
        => OfActiveHabits(response.value[1].critical_habits)

----------------------------------------------------------------------------
(* Properties of the endpoints *)

\* C21: asking for the recommendations of a user that does not exist yields
\* not-found (404), and asking for the recommendations of a habit that does
\* not exist or is another user's yields not-found (404); neither returns a
\* recommendation response.
C21_NotFoundSurfaced ==
    /\ (response.op = "get_recommendations" /\ response.user_id \notin Users)
        => (response.raised = "HTTPException 404" /\ response.value = << >>)
    /\ (response.op = "get_habit_recommendations"
           /\ ~(response.habit_id \in HabitIds
                 /\ habits[response.habit_id].user_id = response.user_id))
        => (response.raised = "HTTPException 404" /\ response.value = << >>)

----------------------------------------------------------------------------
(* Properties of the weekly generation's outcome *)

\* C22: a weekly generation completes without an exception of its rules for
\* every user and week, a user with an active habit without entries in the
\* analysis window included: no call ends before the save because a rule
\* raised.
C22_AbsenceOfDataIsNoError ==
    \A s \in Sessions : sessions[s].entry # "" => sessions[s].outcome # "raised"

----------------------------------------------------------------------------
(* Properties of the failure patterns' percentages *)

RECURSIVE SumPercentages(_)
SumPercentages(entries) ==
    IF entries = << >> THEN 0
    ELSE Head(entries).percentage + SumPercentages(Tail(entries))

\* Each percentage is within 0..100 (in hundredths) and their sum is at most 100
WithinHundred(entries) ==
    /\ \A i \in 1..Len(entries) :
           entries[i].percentage >= 0 /\ entries[i].percentage <= 10000
    /\ SumPercentages(entries) <= 10000

\* C23: every entry of identify_repeated_failures and every FailurePattern of
\* _get_failure_patterns has a percentage within 0..100, the percentages of
\* one habit sum to at most 100, and building a FailurePattern never fails.
C23_PercentagesWithin100 ==
    /\ (response.op = "identify_repeated_failures" /\ response.raised = "")
        => WithinHundred(response.value)
    /\ response.op = "_get_failure_patterns"
        => /\ response.raised # "ValidationError"
           /\ response.raised = "" => WithinHundred(response.value)

----------------------------------------------------------------------------
(* Properties of consecutive_failures *)

\* The entries of the habit in the window the response was asked for
EntriesInWindow ==
    { i \in 1..Len(habit_logs) :
        /\ habit_logs[i].habit_id = response.habit_id
        /\ habit_logs[i].user_id = response.user_id
        /\ habit_logs[i].date >= today - response.days }

\* The failed entries of the window dated after every completed one
TrailingRun ==
    { i \in EntriesInWindow :
        /\ habit_logs[i].completed = 0
        /\ \A j \in EntriesInWindow :
               habit_logs[j].completed = 1 => habit_logs[j].date < habit_logs[i].date }

\* C24: consecutive_failures is the length of the trailing run of failed
\* entries of the window in the order of their dates, in whatever order the
\* store returns them: it is 0 if and only if the most recent entry is
\* completed or there is no entry, it is the number of entries when all are
\* failed, and it never exceeds total_failures.
C24_ConsecutiveFailures ==
    response.op = "get_failure_patterns_for_habit" =>
        LET analysis == response.value[1]
            entries == EntriesInWindow
        IN  /\ analysis.consecutive_failures = Cardinality(TrailingRun)
            /\ analysis.consecutive_failures = 0 <=>
                   \/ entries = {}
                   \/ \E i \in entries :
                          /\ habit_logs[i].completed = 1
                          /\ \A j \in entries : habit_logs[j].date <= habit_logs[i].date
            /\ (\A i \in entries : habit_logs[i].completed = 0)
                   => analysis.consecutive_failures = Cardinality(entries)
            /\ analysis.consecutive_failures <= analysis.total_failures

\* Three or more entries of the window, stored with the most recent one first
\* and a completed one last, end in a run of 2 failures
C24_Witness ==
    /\ response.op = "get_failure_patterns_for_habit"
    /\ Cardinality(EntriesInWindow) >= 3
    /\ response.value[1].consecutive_failures = 2
    /\ 1 \in EntriesInWindow
    /\ \A j \in EntriesInWindow : habit_logs[j].date <= habit_logs[1].date
    /\ Len(habit_logs) \in EntriesInWindow
    /\ habit_logs[Len(habit_logs)].completed = 1

----------------------------------------------------------------------------
(* Properties of the response's summary *)

\* C25: in the result of generate_recommendations, habits_needing_attention is
\* the number of distinct habits that occur in habit_recommendations, and it
\* never exceeds total_habits_tracked.
C25_HabitsNeedingAttention ==
    (response.op = "generate_recommendations" /\ response.raised = "") =>
        LET result == response.value[1]
            with_recommendations ==
                { result.habit_recommendations[i].habit_id :
                    i \in 1..Len(result.habit_recommendations) }
        IN  /\ result.habits_needing_attention = Cardinality(with_recommendations)
            /\ result.habits_needing_attention <= result.total_habits_tracked

----------------------------------------------------------------------------
(* Properties of the acted-upon state *)

\* C26: when a weekly generation of (user, week) has completed, every stored
\* row of (user, week) has is_acted_upon = 0 and no acted_upon_date, also when
\* a row of the same habit and type had been marked acted upon before.
C26_RegenerationDiscardsActedUpon ==
    \A s \in Sessions : JustCommitted(s) =>
        \A r \in StoredFor(sessions[s].user_id,
                            sessions[s].week_start_date) :
            r.is_acted_upon = 0 /\ r.acted_upon_date = 0

\* A generation has completed that replaced a row marked acted upon by a row
\* of the same habit and type
C26_Witness ==
    \E s \in Sessions :
        /\ JustCommitted(s)
        /\ \E old \in sessions[s].replaced :
               /\ old.is_acted_upon = 1
               /\ \E r \in StoredFor(sessions[s].user_id,
                                       sessions[s].week_start_date) :
                      /\ r.habit_id = old.habit_id
                      /\ r.recommendation_type = old.recommendation_type

----------------------------------------------------------------------------
(* Properties of the weekly rules of one habit *)

CompletionTypes == { "reduce_scope", "add_stretch", "consistency_improvement" }

\* The positions of the response's records that are of one of the types
RecordsOf(types) ==
    { i \in 1..Len(response.value) : response.value[i].recommendation_type \in types }

\* C27: for one habit and one week the weekly rules produce at most one record
\* of each recommendation type and at most one record of the three types that
\* depend on the completion, hence at most 3 records.
C27_AtMostThreeRecords ==
    response.op = "_generate_habit_weekly_recommendations" =>
        /\ \A i, j \in 1..Len(response.value) :
               response.value[i].recommendation_type = response.value[j].recommendation_type
                   => i = j
        /\ Cardinality(RecordsOf(CompletionTypes)) <= 1
        /\ Len(response.value) <= 3

\* The rules produced 3 records for the habit, one of them a
\* consistency_improvement record
C27_Witness ==
    /\ response.op = "_generate_habit_weekly_recommendations"
    /\ Len(response.value) = 3
    /\ RecordsOf({ "consistency_improvement" }) # {}

----------------------------------------------------------------------------
(* Properties of the rules that read the user's week summaries *)

\* The habits the response has a recommendation of the type for
HabitsGiven(recommendation_type) ==
    { response.value[1].habit_recommendations[i].habit_id :
        i \in { j \in 1..Len(response.value[1].habit_recommendations) :
                  response.value[1].habit_recommendations[j].recommendation_type
                      = recommendation_type } }

\* C28: in one call of generate_recommendations a reduce-scope recommendation
\* is produced for every active habit of the user or for none, an add-stretch
\* recommendation likewise, and no habit receives both.
C28_SameForEveryHabit ==
    (response.op = "generate_recommendations" /\ response.raised = "") =>
        LET active == { h \in HabitIds : /\ habits[h].user_id = response.user_id
                                         /\ habits[h].is_active }
        IN  /\ HabitsGiven("reduce_scope") \in { {}, active }
            /\ HabitsGiven("add_stretch") \in { {}, active }
            /\ HabitsGiven("reduce_scope") \cap HabitsGiven("add_stretch") = {}

\* A call returned reduce-scope recommendations for two habits while rows at
\* 70 or more are stored for older weeks of the user
C28_Witness ==
    /\ response.op = "generate_recommendations"
    /\ response.raised = ""
    /\ Cardinality(HabitsGiven("reduce_scope")) = 2
    /\ \E r \in week_summaries :
           r.user_id = response.user_id /\ r.average_completion_percentage >= 70

----------------------------------------------------------------------------
(* Properties of a week without entries *)

\* The active habits of the user without an entry dated in the week
WithoutEntries(user_id, week_start_date) ==
    { h \in HabitIds : /\ habits[h].user_id = user_id
                       /\ habits[h].is_active
                       /\ EntriesOfWeek(h, week_start_date) = {} }

\* C29: an active habit without entries dated in the target week is given the
\* completion 0 for that week: whenever the rules of the generation complete,
\* a reduce_scope record that names 0% is produced for it and neither an
\* add_stretch nor a consistency_improvement record, and when the generation
\* has completed a reduce_scope row of the habit is stored.
C29_NoEntriesIsZeroCompletion ==
    \A s \in Sessions : (sessions[s].entry # "" /\ sessions[s].outcome # "raised") =>
        \A h \in WithoutEntries(sessions[s].user_id, sessions[s].week_start_date) :
            /\ \E i \in 1..Len(sessions[s].recommendations) :
                   /\ sessions[s].recommendations[i].habit_id = h
                   /\ sessions[s].recommendations[i].recommendation_type = "reduce_scope"
                   /\ sessions[s].recommendations[i].details.percent = 0
            /\ ~Produced(s, h, "add_stretch")
            /\ ~Produced(s, h, "consistency_improvement")
            /\ JustCommitted(s) =>
                   \E r \in StoredFor(sessions[s].user_id, sessions[s].week_start_date) :
                       r.habit_id = h /\ r.recommendation_type = "reduce_scope"

\* A generation has completed for a week in which an active habit of the user
\* has no entry, while the habit has entries on other days
C29_Witness ==
    \E s \in Sessions :
        /\ JustCommitted(s)
        /\ \E h \in WithoutEntries(sessions[s].user_id, sessions[s].week_start_date) :
               /\ \E i \in 1..Len(habit_logs) : habit_logs[i].habit_id = h
               /\ \E r \in StoredFor(sessions[s].user_id, sessions[s].week_start_date) :
                      r.habit_id = h /\ r.recommendation_type = "reduce_scope"

----------------------------------------------------------------------------
(* Properties of is_acted_upon *)

\* A stored row has an acted_upon_date if and only if it is marked
DateIffFlag ==
    \A r \in weekly_recommendations : (r.acted_upon_date # 0) <=> (r.is_acted_upon = 1)

\* No marked row is in the list get_pending_recommendations returned
PendingUnmarked ==
    response.op = "get_pending_recommendations" =>
        \A i \in 1..Len(response.value) :
            /\ response.value[i].is_acted_upon = 0
            /\ \A r \in weekly_recommendations :
                   r.id = response.value[i].id => r.is_acted_upon = 0

\* A marked row that stays stored stays marked
NeverReset ==
    \A r \in weekly_recommendations : \A q \in weekly_recommendations' :
        (q.id = r.id /\ r.is_acted_upon = 1) => q.is_acted_upon = 1

\* A mark of a stored id changes the flag and the date of that row and
\* nothing else; a mark of an unknown id returns nothing and changes no row
MarkOnlyThatRow ==
    (response'.op = "mark_recommendation_acted_upon" /\ response' # response) =>
        IF response'.value = << >>
        THEN weekly_recommendations' = weekly_recommendations
        ELSE \E r \in weekly_recommendations :
                 /\ response'.value =
                        << [r EXCEPT !.is_acted_upon = 1, !.acted_upon_date = today] >>
                 /\ weekly_recommendations' =
                        (weekly_recommendations \ { r }) \cup { response'.value[1] }

\* C30: a stored row has acted_upon_date set if and only if is_acted_upon = 1;
\* a mark of a stored id sets the flag on that row only, a mark of an unknown
\* id returns nothing and changes no row, no operation sets the flag of a
\* stored row back to 0, and get_pending_recommendations never returns a
\* marked row.
C30_ActedUponFlag ==
    /\ [](DateIffFlag /\ PendingUnmarked)
    /\ [][NeverReset /\ MarkOnlyThatRow]_vars

\* get_pending_recommendations returned rows of a user who has a marked row
\* and a row that is not marked
C30_Witness ==
    /\ response.op = "get_pending_recommendations"
    /\ response.value # << >>
    /\ \E r \in weekly_recommendations :
           r.user_id = response.user_id /\ r.is_acted_upon = 1 /\ r.acted_upon_date # 0

====
